---- MODULE Spec2Model ----
(***************************************************************************)
(* Model of the hull-closeio connector's reconciliation code:              *)
(*   FilterUtil     (src/server/lib/sync-agent/filter-util.js)             *)
(*   MappingUtil    (src/server/lib/sync-agent/mapping-util.js, and the    *)
(*                  later revision of the class in src/unnamed/part_001)   *)
(*   ServiceClient  (src/server/lib/service-client.js)                     *)
(*   SyncAgent      (src/server/lib/sync-agent.js)                         *)
(* The specifications share the variables below:                           *)
(*   SpecFilter    FilterUtil.filterAccounts / filterUsers called directly *)
(*                 on a list of envelopes, with a cache configured         *)
(*   SpecDedup     FilterUtil.deduplicate*UpdateMessages on a batch        *)
(*   SpecAgent     SyncAgent.sendAccountMessages / sendUserMessages        *)
(*                 batches on one agent with a persistent identity cache   *)
(*   SpecClient    ServiceClient.postContactEnvelope /                     *)
(*                 updateContactEnvelope called on a list of envelopes     *)
(*   SpecDispatch  the statements of the batch operations that follow the  *)
(*                 filter, started from filter results                     *)
(*   SpecFilterAccounts  filterAccounts on accounts that may lack the      *)
(*                 lead identifier                                         *)
(*   SpecMapping   the methods of one MappingUtil called on any input      *)
(*   SpecConcurrent  two batch operations for the same entity in flight    *)
(*   SpecFetch     one call of SyncAgent.fetchUpdatedLeads                 *)
(***************************************************************************)
EXTENDS Naturals, Sequences, FiniteSets

(* ------------------------------------------------------------------ *)
(* Bounds of the model                                                 *)
(* ------------------------------------------------------------------ *)
\* envelopes in one filter call, and distinct internal entities
MaxEnvelopes == 2
\* messages in one batch
MaxMessages == 2
\* batches one agent is sent, one after the other
MaxBatches == 2

(* ------------------------------------------------------------------ *)
(* JavaScript values                                                   *)
(* ------------------------------------------------------------------ *)
\* undefined: a property that is not there, a cache miss
ABSENT == "undefined"
\* null
NULLV == "null"

\* JS truthiness of the values the model uses (ids are non-empty strings)
Truthy(v) == v \notin {ABSENT, NULLV}

\* a || b
JsOr(a, b) == IF Truthy(a) THEN a ELSE b

\* _.isNil(v)
isNil(v) == v \in {ABSENT, NULLV}

(* ------------------------------------------------------------------ *)
(* Domains                                                             *)
(* ------------------------------------------------------------------ *)
\* internal (Hull) entity ids: account.id / user.id
HullId(k) == <<"hull", k>>
HullIds == {HullId(k) : k \in 1..MaxEnvelopes}
\* message.id of the update message of entity k: an id of the notification,
\* which is not the id of the account or user it is about
MessageId(k) == <<"message", k>>
MessageIds == {MessageId(k) : k \in 1..MaxEnvelopes}
\* the keys of the identity cache
CacheKeys == HullIds \cup MessageIds
\* segment ids
Segments == {"s1", "s2"}
\* the segment lists of a message (message.account_segments): none, one, several
SegmentSets == {{}, {"s1"}, {"s1", "s2"}}
\* external id already on the snapshot ("closeio/id", "traits_closeio/id")
ExplicitIds == {"x1"}
\* external ids the identity cache can hold
CachedIds == {"x2"}
\* external id of the parent lead on a contact write payload
LeadIds == {"lead1"}
\* values of the account attribute named by leadIdentifierHull
LeadIdents == {"acme.com"}
\* CioObjectType
ObjectTypes == {"Lead", "Contact"}
\* event_id of the sub-events of a message
EventIds == {"e1", "e2"}
\* account.indexed_at / user.indexed_at (ISO timestamps, compared as sortBy does)
IndexedAts == {1, 2}

\* SHARED_MESSAGES.<KEY>().message: the catalog (../shared-messages) is not
\* among the sources; every entry is taken to be its own non-empty text.
OPERATION_SKIP_NOMATCHACCOUNTSEGMENTS == "OPERATION_SKIP_NOMATCHACCOUNTSEGMENTS"
OPERATION_SKIP_NOMATCHACCOUNTSEGMENTSUSER == "OPERATION_SKIP_NOMATCHACCOUNTSEGMENTSUSER"
OPERATION_SKIP_ACCOUNTDOESNTEXISTINCLOSEIO == "OPERATION_SKIP_ACCOUNTDOESNTEXISTINCLOSEIO"
OPERATION_SKIP_USERDOESNTEXISTINCLOSEIO == "OPERATION_SKIP_USERDOESNTEXISTINCLOSEIO"
OPERATION_SKIP_NOLINKEDACCOUNT == "OPERATION_SKIP_NOLINKEDACCOUNT"
OPERATION_SKIP_NOLEADIDENT == "OPERATION_SKIP_NOLEADIDENT"

VARIABLES
  \* FilterUtil configuration
  synchronizedAccountSegments, \* this.synchronizedAccountSegments
  filterCache,                 \* this.cache of the FilterUtil: "cache" or ABSENT
  \* the identity cache (cache-manager store): key -> value, ABSENT when missing
  cacheStore,
  \* one run of filterAccounts / filterUsers
  fKind,       \* "account" | "user" | "none"
  fpc,         \* "idle" | "running" | "resolved" | "rejected"
  envelopes,   \* the envelope objects handed to the filter (mutated in place)
  pos,         \* index of the envelope Promise.each handles next
  results,     \* { toSkip, toInsert, toUpdate }: lists of references (indices)
  lookups,     \* the cache.get calls of the run, in order: <<index, key, state>>
  \* one call of deduplicateUserUpdateMessages / deduplicateAccountUpdateMessages
  messages,    \* the batch of update messages
  deduped,     \* the list returned
  dpc,         \* "idle" | "called" | "returned"
  \* one SyncAgent and the batch operation it runs
  apiKey,       \* normalizedPrivateSettings.api_key: "valid" or ABSENT
  attributeMappings, \* the object types the settings hold outbound mappings for
  initialized,  \* isInitialized(): this.mappingUtil is a MappingUtil
  refCached,    \* the reference data keys the cache holds
  wraps,        \* the keys cache.wrap has been called with, in order
  apc,          \* "idle" | "called" | "initialized" | "built" | "resolved" | "rejected"
  batchNo,      \* number of the batch operation running
  serviceCalls, \* requests sent to close.io, in order
  hullLog,      \* entries written to the Hull logger by send*Messages
  \* the service client and the result callbacks of the batch operation
  cOp,          \* the envelope method called: "post" | "update" | "none"
  settled,      \* per envelope, how the call for it ended and the enriched envelope
  traits,       \* attribute writes to Hull (asUser(..).traits / asAccount(..).traits)
  \* one MappingUtil and the calls made on it
  mappingSettings, \* the settings the MappingUtil was constructed with
  mpc,             \* the method called on it, and how far the call is
  urlCall,         \* normalizeUrl: the argument, and what the call gave
  cioRecord,       \* the close.io record (lead or contact) mapped inbound
  hullAttributes,  \* the attributes map*ToHull*Attributes returned
  hullRecord,      \* the Hull record (account or user) mapped outbound
  svcResult,       \* what mapToServiceObject gave: a payload or a LogicError
  \* two batch operations running at once on one identity cache
  ops,
  \* one run of fetchUpdatedLeads
  fetchPc,          \* fetchUpdatedLeads: "none" | "called" | "piping" | "succeeded" | "failed"
  fetchStream,      \* the stream of updated leads: its chunks, those delivered, its state
  fetchLeads,       \* the leads of the stream and the writes to Hull made for them
  lastSyncAt        \* private_settings.last_sync_at: "before" | "now"

filterVars == <<synchronizedAccountSegments, filterCache, cacheStore, fKind, fpc,
                envelopes, pos, results, lookups>>

dedupVars == <<messages, deduped, dpc>>

agentVars == <<apiKey, attributeMappings, initialized, refCached, wraps, apc, batchNo, serviceCalls, hullLog>>

clientVars == <<cOp, settled, traits>>

vars == <<synchronizedAccountSegments, filterCache, cacheStore, fKind, fpc,
          envelopes, pos, results, lookups, messages, deduped, dpc,
          apiKey, attributeMappings, initialized, refCached, wraps, apc, batchNo, serviceCalls, hullLog,
          cOp, settled, traits,
          mappingSettings, mpc, urlCall, cioRecord, hullAttributes, hullRecord, svcResult,
          ops, fetchPc, fetchStream, fetchLeads, lastSyncAt>>

mappingVars == <<mappingSettings, mpc, urlCall, cioRecord, hullAttributes, hullRecord, svcResult>>

concurrentVars == <<ops>>

fetchVars == <<fetchPc, fetchStream, fetchLeads, lastSyncAt>>

\* no MappingUtil method is being called
MappingIdle ==
  /\ mappingSettings = "none"
  /\ mpc = "none"
  /\ urlCall = "none"
  /\ cioRecord = "none"
  /\ hullAttributes = "none"
  /\ hullRecord = "none"
  /\ svcResult = "none"

\* no second batch operation runs beside the one of the agent
ConcurrentIdle == ops = <<>>

\* fetchUpdatedLeads is not running
FetchIdle ==
  /\ fetchPc = "none"
  /\ fetchStream = "none"
  /\ fetchLeads = <<>>
  /\ lastSyncAt = "before"

(* ------------------------------------------------------------------ *)
(* Envelopes                                                           *)
(* ------------------------------------------------------------------ *)
\* An envelope as the filter reads it:
\*   id        envelope.hullAccount.id / envelope.hullUser.id
\*   cioId     envelope.hullAccount["closeio/id"] / hullUser["traits_closeio/id"]
\*   segments  ids of envelope.message.account_segments
\*   write     envelope.cioLeadWrite / envelope.cioContactWrite
\*   cachedReadId  envelope.cachedCioLeadReadId / cachedCioContactReadId
\*   ident     envelope.hullAccount[this.leadIdentifierHull] (accounts)
AccountEnvelopesWith(ids, idents) ==
  [id : ids, cioId : {ABSENT, NULLV} \cup ExplicitIds, segments : SegmentSets,
   write : [id : {ABSENT}, lead_id : {ABSENT}], cachedReadId : {NULLV},
   skipReason : {NULLV}, opsResult : {ABSENT}, ident : idents]

\* the account envelopes whose account has the lead identifier attribute
AccountEnvelopes(ids) == AccountEnvelopesWith(ids, LeadIdents)

UserEnvelopes(ids) ==
  [id : ids, cioId : {ABSENT, NULLV} \cup ExplicitIds, segments : SegmentSets,
   write : [id : {ABSENT}, lead_id : {NULLV} \cup LeadIds], cachedReadId : {NULLV},
   skipReason : {NULLV}, opsResult : {ABSENT}]

\* the envelope lists of up to n envelopes of distinct entities
EnvelopeLists(kind, n) ==
  UNION {{es \in [1..k -> IF kind = "account" THEN AccountEnvelopes(HullIds)
                                              ELSE UserEnvelopes(HullIds)] :
            \A i \in 1..k : es[i].id = HullId(i)} : k \in 0..n}

EmptyResults == [toSkip |-> <<>>, toInsert |-> <<>>, toUpdate |-> <<>>]

(* ------------------------------------------------------------------ *)
(* FilterUtil                                                          *)
(* ------------------------------------------------------------------ *)
\* this.synchronizedAccountSegments = config.synchronizedAccountSegments || []
configuredSegments(given, value) == IF given THEN value ELSE {}

\* _.intersection(array, other): the values of array that other includes
intersection(array, other) == {x \in array : x \in other}

\* matchesSynchronizedAccountSegments, were it to test the list of segments
\* of the message alone
matchesAnySegment(envelope, allowed) ==
  Cardinality(envelope.segments) > 0

\* matchesSynchronizedAccountSegments(envelope, "message.account_segments"):
\* _.intersection(msgSegmentIds, this.synchronizedAccountSegments).length > 0
matchesSynchronizedAccountSegments(envelope, allowed) ==
  Cardinality(intersection(envelope.segments, allowed)) > 0

\* _.has(envelope.hullAccount, "closeio/id") / _.has(envelope.hullUser, "traits_closeio/id")
hasExplicitId(envelope) == envelope.cioId # ABSENT

\* push, were it to assign the list instead of appending to it
pushOverwriting(res, list, ref) == [res EXCEPT ![list] = <<ref>>]

\* results.<list>.push(envelope)
push(res, list, ref) == [res EXCEPT ![list] = Append(@, ref)]

\* filterAccounts, were it to resolve the identity before it looks at the segments
filterAccountsEachIdentityFirst(envelope, allowed, cached) ==
  IF envelope.cioId # ABSENT \/ ~isNil(cached)
  THEN [list |-> "toUpdate",
        envelope |-> [envelope EXCEPT !.write.id = JsOr(envelope.cioId, cached)]]
  ELSE IF (envelope.segments \cap allowed) = {}
  THEN [list |-> "toSkip",
        envelope |-> [envelope EXCEPT !.skipReason = OPERATION_SKIP_NOMATCHACCOUNTSEGMENTS,
                                      !.opsResult = "skip"]]
  ELSE [list |-> "toSkip",
        envelope |-> [envelope EXCEPT !.skipReason = OPERATION_SKIP_ACCOUNTDOESNTEXISTINCLOSEIO,
                                      !.opsResult = "skip"]]

\* The body of the Promise.each callback of filterAccounts for one envelope,
\* given what cache.get returned: the list it is pushed to and the envelope
\* as mutated.
filterAccountsEach(envelope, allowed, cached) ==
  IF ~matchesSynchronizedAccountSegments(envelope, allowed)
  THEN [list |-> "toSkip",
        envelope |-> [envelope EXCEPT !.skipReason = OPERATION_SKIP_NOMATCHACCOUNTSEGMENTS,
                                      !.opsResult = "skip"]]
  ELSE IF hasExplicitId(envelope) \/ ~isNil(cached)
  THEN [list |-> "toUpdate",
        envelope |-> [envelope EXCEPT !.write.id = JsOr(envelope.cioId, cached)]]
  ELSE [list |-> "toSkip",
        envelope |-> [envelope EXCEPT !.skipReason = OPERATION_SKIP_ACCOUNTDOESNTEXISTINCLOSEIO,
                                      !.opsResult = "skip"]]

\* filterUsers, were it to look at the snapshot only and not at the cache
filterUsersEachIgnoringCache(envelope, allowed, cached) ==
  IF (envelope.segments \cap allowed) = {}
  THEN [list |-> "toSkip",
        envelope |-> [envelope EXCEPT !.skipReason = OPERATION_SKIP_NOMATCHACCOUNTSEGMENTSUSER,
                                      !.opsResult = "skip"]]
  ELSE IF envelope.cioId # ABSENT
  THEN [list |-> "toUpdate",
        envelope |-> [envelope EXCEPT !.write.id = envelope.cioId]]
  ELSE [list |-> "toSkip",
        envelope |-> [envelope EXCEPT !.skipReason = OPERATION_SKIP_USERDOESNTEXISTINCLOSEIO,
                                      !.opsResult = "skip"]]

\* The same for filterUsers.
filterUsersEach(envelope, allowed, cached) ==
  IF ~matchesSynchronizedAccountSegments(envelope, allowed)
  THEN [list |-> "toSkip",
        envelope |-> [envelope EXCEPT !.skipReason = OPERATION_SKIP_NOMATCHACCOUNTSEGMENTSUSER,
                                      !.opsResult = "skip"]]
  ELSE IF hasExplicitId(envelope) \/ ~isNil(cached)
  THEN [list |-> "toUpdate",
        envelope |-> [envelope EXCEPT !.write.id = JsOr(envelope.cioId, cached)]]
  ELSE [list |-> "toSkip",
        envelope |-> [envelope EXCEPT !.skipReason = OPERATION_SKIP_USERDOESNTEXISTINCLOSEIO,
                                      !.opsResult = "skip"]]

filterEach(kind, envelope, allowed, cached) ==
  IF kind = "account" THEN filterAccountsEach(envelope, allowed, cached)
  ELSE filterUsersEach(envelope, allowed, cached)

\* One iteration of Promise.each whose envelope is outside the synchronized
\* segments: it is pushed to toSkip and no cache lookup is made.
filterSkipSegment ==
  /\ fpc = "running"
  /\ pos <= Len(envelopes)
  /\ ~matchesSynchronizedAccountSegments(envelopes[pos], synchronizedAccountSegments)
  /\ LET r == filterEach(fKind, envelopes[pos], synchronizedAccountSegments, ABSENT)
     IN /\ envelopes' = [envelopes EXCEPT ![pos] = r.envelope]
        /\ results' = push(results, r.list, pos)
  /\ pos' = pos + 1
  /\ UNCHANGED <<synchronizedAccountSegments, filterCache, cacheStore, fKind, fpc, lookups>>
  /\ UNCHANGED dedupVars
  /\ UNCHANGED agentVars
  /\ UNCHANGED clientVars
  /\ UNCHANGED mappingVars
  /\ UNCHANGED concurrentVars
  /\ UNCHANGED fetchVars

\* Promise.each, were it Promise.all(envelopes.map(..)): the callback of every
\* envelope starts at once
callbackMayStartAtOnce(k, position, calls) ==
  /\ k >= position
  /\ \A i \in DOMAIN calls : calls[i][1] # k

\* Promise.each(envelopes, async envelope => ..) of bluebird: the callback of
\* an envelope starts when the promise returned for the envelope before it has
\* resolved, in the order of the list
callbackMayStart(k, position, calls) ==
  /\ k = position
  /\ \A i \in DOMAIN calls : calls[i][3] # "pending"

\* The callback of an envelope in a synchronized segment starts and calls
\* this.cache.get(envelope.hullAccount.id / envelope.hullUser.id); the await
\* suspends it.
filterGet ==
  /\ fpc = "running"
  /\ filterCache # ABSENT
  /\ \E k \in 1..Len(envelopes) :
        /\ callbackMayStart(k, pos, lookups)
        /\ matchesSynchronizedAccountSegments(envelopes[k], synchronizedAccountSegments)
        /\ lookups' = Append(lookups, <<k, envelopes[k].id, "pending">>)
  /\ UNCHANGED <<synchronizedAccountSegments, filterCache, cacheStore, fKind, fpc,
                 envelopes, pos, results>>
  /\ UNCHANGED dedupVars
  /\ UNCHANGED agentVars
  /\ UNCHANGED clientVars
  /\ UNCHANGED mappingVars
  /\ UNCHANGED concurrentVars
  /\ UNCHANGED fetchVars

\* await this.cache.get(id) resolves: the callback goes on with the value and
\* classifies its envelope.
filterLookup ==
  /\ fpc = "running"
  /\ \E l \in DOMAIN lookups :
        /\ lookups[l][3] = "pending"
        /\ LET k == lookups[l][1]
               cached == cacheStore[lookups[l][2]]
               r == filterEach(fKind, envelopes[k], synchronizedAccountSegments, cached)
           IN /\ envelopes' = [envelopes EXCEPT ![k] = r.envelope]
              /\ results' = push(results, r.list, k)
        /\ lookups' = [lookups EXCEPT ![l] = <<@[1], @[2], "resolved">>]
  /\ pos' = pos + 1
  /\ UNCHANGED <<synchronizedAccountSegments, filterCache, cacheStore, fKind, fpc>>
  /\ UNCHANGED dedupVars
  /\ UNCHANGED agentVars
  /\ UNCHANGED clientVars
  /\ UNCHANGED mappingVars
  /\ UNCHANGED concurrentVars
  /\ UNCHANGED fetchVars

\* The lookup fails: this.cache is undefined (TypeError when the callback gets
\* to the call) or the promise of cache.get rejects. The callback rejects,
\* Promise.each stops and the filter's promise rejects.
filterLookupFails ==
  /\ fpc = "running"
  /\ IF filterCache = ABSENT
     THEN /\ pos <= Len(envelopes)
          /\ matchesSynchronizedAccountSegments(envelopes[pos], synchronizedAccountSegments)
          /\ lookups' = lookups
     ELSE \E l \in DOMAIN lookups :
            /\ lookups[l][3] = "pending"
            /\ lookups' = [lookups EXCEPT ![l] = <<@[1], @[2], "rejected">>]
  /\ fpc' = "rejected"
  /\ UNCHANGED <<synchronizedAccountSegments, filterCache, cacheStore, fKind,
                 envelopes, pos, results>>
  /\ UNCHANGED dedupVars
  /\ UNCHANGED agentVars
  /\ UNCHANGED clientVars
  /\ UNCHANGED mappingVars
  /\ UNCHANGED concurrentVars
  /\ UNCHANGED fetchVars

\* Promise.each is through the list: return results.
filterReturn ==
  /\ fpc = "running"
  /\ pos > Len(envelopes)
  /\ fpc' = "resolved"
  /\ UNCHANGED <<synchronizedAccountSegments, filterCache, cacheStore, fKind,
                 envelopes, pos, results, lookups>>
  /\ UNCHANGED dedupVars
  /\ UNCHANGED agentVars
  /\ UNCHANGED clientVars
  /\ UNCHANGED mappingVars
  /\ UNCHANGED concurrentVars
  /\ UNCHANGED fetchVars

(* ------------------------------------------------------------------ *)
(* SpecFilter: the filters called on any list of envelopes             *)
(* ------------------------------------------------------------------ *)
InitFilter ==
  /\ \E given \in BOOLEAN, value \in SUBSET Segments :
        synchronizedAccountSegments = configuredSegments(given, value)
  /\ filterCache = "cache"
  /\ \E c \in [HullIds -> {ABSENT} \cup CachedIds] :
        cacheStore = [k \in CacheKeys |-> IF k \in HullIds THEN c[k] ELSE ABSENT]
  /\ fKind \in {"account", "user"}
  /\ fpc = "running"
  /\ envelopes \in EnvelopeLists(fKind, MaxEnvelopes)
  /\ pos = 1
  /\ results = EmptyResults
  /\ lookups = <<>>
  /\ messages = <<>>
  /\ deduped = <<>>
  /\ dpc = "idle"
  /\ apiKey = "valid"
  /\ attributeMappings = ObjectTypes
  /\ initialized = FALSE
  /\ refCached = {}
  /\ wraps = <<>>
  /\ apc = "idle"
  /\ batchNo = 0
  /\ serviceCalls = <<>>
  /\ hullLog = <<>>
  /\ cOp = "none"
  /\ settled = <<>>
  /\ traits = <<>>
  /\ MappingIdle
  /\ ConcurrentIdle
  /\ FetchIdle

NextFilter ==
  \/ filterSkipSegment
  \/ filterGet
  \/ filterLookup
  \/ filterLookupFails
  \/ filterReturn

SpecFilter == InitFilter /\ [][NextFilter]_vars

\* filterAccounts called on accounts that may lack the attribute named by
\* leadIdentifierHull
InitFilterAccounts ==
  /\ \E given \in BOOLEAN, value \in SUBSET Segments :
        synchronizedAccountSegments = configuredSegments(given, value)
  /\ filterCache = "cache"
  /\ \E c \in [HullIds -> {ABSENT} \cup CachedIds] :
        cacheStore = [k \in CacheKeys |-> IF k \in HullIds THEN c[k] ELSE ABSENT]
  /\ fKind = "account"
  /\ fpc = "running"
  /\ envelopes \in UNION {{es \in [1..k -> AccountEnvelopesWith(HullIds, {ABSENT} \cup LeadIdents)] :
                             \A i \in 1..k : es[i].id = HullId(i)} : k \in 0..MaxEnvelopes}
  /\ pos = 1
  /\ results = EmptyResults
  /\ lookups = <<>>
  /\ messages = <<>>
  /\ deduped = <<>>
  /\ dpc = "idle"
  /\ apiKey = "valid"
  /\ attributeMappings = ObjectTypes
  /\ initialized = FALSE
  /\ refCached = {}
  /\ wraps = <<>>
  /\ apc = "idle"
  /\ batchNo = 0
  /\ serviceCalls = <<>>
  /\ hullLog = <<>>
  /\ cOp = "none"
  /\ settled = <<>>
  /\ traits = <<>>
  /\ MappingIdle
  /\ ConcurrentIdle
  /\ FetchIdle

SpecFilterAccounts == InitFilterAccounts /\ [][NextFilter]_vars

(* ------------------------------------------------------------------ *)
(* FilterUtil: deduplication                                           *)
(* ------------------------------------------------------------------ *)
\* An update message:
\*   id          message.account.id / message.user.id
\*   indexed_at  message.account.indexed_at / message.user.indexed_at
\*   cioId       "closeio/id" / "traits_closeio/id" of the snapshot
\*   segments    ids of message.account_segments
\*   lead_id     message.account["closeio/id"] of a user's account
\*   events      event_id of each of message.events
Messages(ids, indexedAts, cioIds, segmentSets, leadIds, eventSets) ==
  [id : ids, indexed_at : indexedAts, cioId : cioIds, segments : segmentSets,
   lead_id : leadIds, events : eventSets]

\* the batches of up to n messages
Batches(M, n) == UNION {[1..k -> M] : k \in 0..n}

\* _.groupBy(messages, "<entity>.id"): the keys in the order they first occur
RECURSIVE groupKeys(_, _)
groupKeys(msgs, i) ==
  IF i > Len(msgs) THEN <<>>
  ELSE LET rest == groupKeys(msgs, i + 1)
           first == \A j \in 1..(i - 1) : msgs[j].id # msgs[i].id
       IN IF first THEN <<msgs[i].id>> \o rest ELSE rest

\* the group of a key: the indices of its messages, in batch order
RECURSIVE groupOf(_, _, _)
groupOf(msgs, key, i) ==
  IF i > Len(msgs) THEN <<>>
  ELSE (IF msgs[i].id = key THEN <<i>> ELSE <<>>) \o groupOf(msgs, key, i + 1)

\* insert index i into a list sorted by indexed_at, after its equals (stable)
RECURSIVE insertSorted(_, _, _)
insertSorted(msgs, sorted, i) ==
  IF sorted = <<>> THEN <<i>>
  ELSE IF msgs[Head(sorted)].indexed_at <= msgs[i].indexed_at
       THEN <<Head(sorted)>> \o insertSorted(msgs, Tail(sorted), i)
       ELSE <<i>> \o sorted

\* _.sortBy(groupedMessages, ["<entity>.indexed_at"]): ascending and stable
RECURSIVE sortBy(_, _)
sortBy(msgs, group) ==
  IF group = <<>> THEN <<>>
  ELSE insertSorted(msgs, sortBy(msgs, SubSeq(group, 1, Len(group) - 1)), group[Len(group)])

\* _.first, taken where _.last is meant
first(list) == list[1]

\* _.last
last(list) == list[Len(list)]

\* the events of a message as objects: the event_id and the message it is from
eventsOf(msgs, i) == {[event_id |-> e, from |-> i] : e \in msgs[i].events}

\* hashedEvents after the forEach over the group: _.set(hashedEvents, e.event_id, e),
\* a later message's event replacing an earlier one of the same event_id.
\* The object is held as the set of its values, one per key.
RECURSIVE hashEvents(_, _, _)
hashEvents(msgs, group, hashed) ==
  IF group = <<>> THEN hashed
  ELSE hashEvents(msgs, Tail(group),
                  {h \in hashed : h.event_id \notin msgs[Head(group)].events}
                    \cup eventsOf(msgs, Head(group)))

\* _.values(hashedEvents)
values(hashed) == hashed

\* a deduplicated message: the clone of message rep, with the events given
dedupedMessage(msgs, rep, events) ==
  [id |-> msgs[rep].id, indexed_at |-> msgs[rep].indexed_at, cioId |-> msgs[rep].cioId,
   segments |-> msgs[rep].segments, lead_id |-> msgs[rep].lead_id,
   events |-> events]

\* the callback of .map in deduplicateUserUpdateMessages, for one group
dedupUserGroup(msgs, group) ==
  dedupedMessage(msgs, last(sortBy(msgs, group)),
                 values(hashEvents(msgs, group, {})))

\* the callback of .map in deduplicateAccountUpdateMessages, for one group
dedupAccountGroup(msgs, group) ==
  LET rep == last(sortBy(msgs, group)) IN dedupedMessage(msgs, rep, eventsOf(msgs, rep))

deduplicateUserUpdateMessages(msgs) ==
  LET keys == groupKeys(msgs, 1)
  IN [g \in 1..Len(keys) |-> dedupUserGroup(msgs, groupOf(msgs, keys[g], 1))]

deduplicateAccountUpdateMessages(msgs) ==
  LET keys == groupKeys(msgs, 1)
  IN [g \in 1..Len(keys) |-> dedupAccountGroup(msgs, groupOf(msgs, keys[g], 1))]

\* filterUtil.deduplicateUserUpdateMessages(messages) is called and returns
callDeduplicateUserUpdateMessages ==
  /\ dpc = "called"
  /\ fKind = "user"
  /\ deduped' = deduplicateUserUpdateMessages(messages)
  /\ dpc' = "returned"
  /\ UNCHANGED <<messages>>
  /\ UNCHANGED filterVars
  /\ UNCHANGED agentVars
  /\ UNCHANGED clientVars
  /\ UNCHANGED mappingVars
  /\ UNCHANGED concurrentVars
  /\ UNCHANGED fetchVars

\* filterUtil.deduplicateAccountUpdateMessages(messages) is called and returns
callDeduplicateAccountUpdateMessages ==
  /\ dpc = "called"
  /\ fKind = "account"
  /\ deduped' = deduplicateAccountUpdateMessages(messages)
  /\ dpc' = "returned"
  /\ UNCHANGED <<messages>>
  /\ UNCHANGED filterVars
  /\ UNCHANGED agentVars
  /\ UNCHANGED clientVars
  /\ UNCHANGED mappingVars
  /\ UNCHANGED concurrentVars
  /\ UNCHANGED fetchVars

(* ------------------------------------------------------------------ *)
(* SpecDedup: the deduplication called on any batch of messages        *)
(* ------------------------------------------------------------------ *)
InitDedup ==
  /\ synchronizedAccountSegments = {}
  /\ filterCache = "cache"
  /\ cacheStore = [k \in CacheKeys |-> ABSENT]
  /\ fKind \in {"account", "user"}
  /\ fpc = "idle"
  /\ envelopes = <<>>
  /\ pos = 1
  /\ results = EmptyResults
  /\ lookups = <<>>
  /\ messages \in Batches(Messages(HullIds, IndexedAts, {ABSENT} \cup ExplicitIds, {{"s1"}}, {NULLV},
                                   SUBSET EventIds), MaxMessages)
  /\ deduped = <<>>
  /\ dpc = "called"
  /\ apiKey = "valid"
  /\ attributeMappings = ObjectTypes
  /\ initialized = FALSE
  /\ refCached = {}
  /\ wraps = <<>>
  /\ apc = "idle"
  /\ batchNo = 0
  /\ serviceCalls = <<>>
  /\ hullLog = <<>>
  /\ cOp = "none"
  /\ settled = <<>>
  /\ traits = <<>>
  /\ MappingIdle
  /\ ConcurrentIdle
  /\ FetchIdle

NextDedup ==
  \/ callDeduplicateUserUpdateMessages
  \/ callDeduplicateAccountUpdateMessages

SpecDedup == InitDedup /\ [][NextDedup]_vars

(* ------------------------------------------------------------------ *)
(* MappingUtil: normalizeUrl                                           *)
(* ------------------------------------------------------------------ *)
\* A string value read as <scheme><//><host><path>, each part possibly empty:
\* "http://Acme.com/p", "acme.com", "mailto:", "".
Str(scheme, slashes, host, path) ==
  [kind |-> "string", scheme |-> scheme, slashes |-> slashes, host |-> host, path |-> path]

\* the value undefined where a string is expected
Undefined == [kind |-> "undefined", scheme |-> "", slashes |-> FALSE, host |-> "", path |-> ""]

\* the string that holds a host name and nothing else
HostOnly(host) == Str("", FALSE, host, "")

Schemes == {"", "http:", "mailto:"}
\* the schemes the URL parser requires a host for
SpecialSchemes == {"http:"}
Hosts == {"", "acme.com", "Acme.com"}
Paths == {"", "/p"}

\* the values normalizeUrl is called with
RawUrls ==
  {Undefined} \cup
  {Str(scheme, slashes, host, path) :
     scheme \in Schemes, slashes \in BOOLEAN, host \in Hosts, path \in Paths}

\* the host parser lower-cases the host of a URL with a special scheme
toLowerCase(host) == IF host = "Acme.com" THEN "acme.com" ELSE host

\* the first segment of a path
firstSegment(path) == IF path = "/p" THEN "p" ELSE ""

\* new URL(input) without a base: throws (ok is FALSE) when the input has no
\* scheme (undefined is read as the string "undefined") or has a special
\* scheme and no host. After a special scheme any number of slashes is
\* skipped and what follows up to the next slash is the host; after another
\* scheme there is a host only behind "//", and it is kept as written.
newURL(input) ==
  IF input.kind = "undefined" \/ input.scheme = ""
  THEN [ok |-> FALSE, hostname |-> ""]
  ELSE IF input.scheme \in SpecialSchemes
  THEN LET host == IF input.host # "" THEN toLowerCase(input.host)
                   ELSE firstSegment(input.path)
       IN [ok |-> host # "", hostname |-> host]
  ELSE [ok |-> TRUE, hostname |-> IF input.slashes THEN input.host ELSE ""]

\* normalizeUrl, were new URL(original) called outside of a try block
normalizeUrlUncaught(original) ==
  LET closeUrl == newURL(original)
  IN IF closeUrl.ok
     THEN [raised |-> FALSE, value |-> HostOnly(closeUrl.hostname)]
     ELSE [raised |-> TRUE, value |-> original]

\* normalizeUrl(original): closeUrl.hostname, or original when new URL throws
normalizeUrl(original) ==
  LET closeUrl == newURL(original)
  IN IF closeUrl.ok
     THEN [raised |-> FALSE, value |-> HostOnly(closeUrl.hostname)]
     ELSE [raised |-> FALSE, value |-> original]

(* ------------------------------------------------------------------ *)
(* MappingUtil: the defaults of the outbound payload                   *)
(* ------------------------------------------------------------------ *)
\* The class is in the sources twice: mapping-util.js, the file sync-agent.js
\* requires, and a later revision of it, src/unnamed/part_001.
Revisions == {"mapping-util.js", "part_001"}

\* the settings that stand for "use the default status of close.io":
\* "N/A" (the option of SyncAgent.getLeadStatus and the default of
\* normalizeSettings) and "hull-default" (the option of leadStatusListAction)
UseDefaultStatus == {"N/A", "hull-default"}
\* the ids of the lead statuses of close.io
LeadStatusIds == {"stat_1"}

\* normalizeSettings: lead_status = _.get(settings, "lead_status", "N/A")
normalizedLeadStatus(lead_status) ==
  IF lead_status = ABSENT THEN "N/A" ELSE lead_status

\* an entry of <type>_attributes_outbound; a name that is not set is ABSENT
OutboundMapping(hull_field_name, closeio_field_name) ==
  [hull_field_name |-> hull_field_name, closeio_field_name |-> closeio_field_name]

OutboundMappings ==
  {OutboundMapping(h, c) : h \in {ABSENT, "domain"}, c \in {ABSENT, "url"}}

\* the value of attributeMappings.<type>_attributes_outbound: a list, or
\* nothing (defined is FALSE) when the settings have no such key
RuleList(defined, list) == [defined |-> defined, list |-> list]

\* _.get(this.attributeMappings, key, []) / (this.attributeMappings[key] || [])
listOrEmpty(rules) == IF rules.defined THEN rules.list ELSE <<>>

\* _.keys(entry).length
keysLength(entry) ==
  Cardinality({k \in {"hull_field_name", "closeio_field_name"} : entry[k] # ABSENT})

\* The guard at the head of mapToServiceObject in mapping-util.js: a
\* LogicError (MAPPING_NOOUTBOUNDFIELDS) is thrown when the list of the object
\* type is missing or empty, or is one entry without keys. The later revision
\* has no such guard.
throwsNoOutboundFields(revision, rules) ==
  /\ revision = "mapping-util.js"
  /\ \/ Len(listOrEmpty(rules)) = 0
     \/ /\ Len(listOrEmpty(rules)) = 1
        /\ keysLength(first(listOrEmpty(rules))) = 0

\* the entries the customized mapping goes through: all of them in
\* mapping-util.js; in the later revision those with both names set
\* (.filter(entry => entry.hull_field_name && entry.closeio_field_name))
mappingsApplied(revision, rules) ==
  LET list == listOrEmpty(rules)
  IN IF revision = "mapping-util.js" THEN {list[i] : i \in DOMAIN list}
     ELSE {list[i] : i \in {j \in DOMAIN list :
                              /\ Truthy(list[j].hull_field_name)
                              /\ Truthy(list[j].closeio_field_name)}}

\* _.forEach(mappings, ..): the properties the customized mapping sets on the
\* payload. An entry whose Hull attribute is nil on the record sets nothing;
\* an entry without closeio_field_name sets the property named "undefined".
customizedMapping(revision, rules, hullObject) ==
  {m.closeio_field_name :
     m \in {e \in mappingsApplied(revision, rules) :
              /\ e.hull_field_name # ABSENT
              /\ ~isNil(hullObject[e.hull_field_name])}}

\* the default properties, were status_id set whenever a creation status is
\* configured
defaultPropertiesStatusAlways(objType, hullObject, leadCreationStatusId) ==
  IF objType = "Lead"
  THEN [id |-> IF isNil(hullObject.cioId) THEN ABSENT ELSE hullObject.cioId,
        status_id |-> IF leadCreationStatusId \notin {"N/A", "hull-default"}
                      THEN leadCreationStatusId ELSE ABSENT,
        lead_id |-> ABSENT]
  ELSE [id |-> IF hullObject.cioId # ABSENT THEN hullObject.cioId ELSE ABSENT,
        status_id |-> ABSENT,
        lead_id |-> JsOr(hullObject.lead_id, NULLV)]

\* "// Default properties" of mapToServiceObject. For a Lead, id is set when
\* _.get(hullObject, "closeio/id", null) is not null, and else status_id is
\* set when leadCreationStatusId is neither "N/A" nor "hull-default". For a
\* Contact, id is set when the user has "traits_closeio/id", and lead_id is
\* the "closeio/id" of the account or null.
defaultProperties(objType, hullObject, leadCreationStatusId) ==
  IF objType = "Lead"
  THEN [id |-> IF isNil(hullObject.cioId) THEN ABSENT ELSE hullObject.cioId,
        status_id |-> IF /\ isNil(hullObject.cioId)
                         /\ leadCreationStatusId \notin {"N/A", "hull-default"}
                      THEN leadCreationStatusId ELSE ABSENT,
        lead_id |-> ABSENT]
  ELSE [id |-> IF hullObject.cioId # ABSENT THEN hullObject.cioId ELSE ABSENT,
        status_id |-> ABSENT,
        lead_id |-> JsOr(hullObject.lead_id, NULLV)]

\* mapToServiceObject(objType, hullObject) on a util of the given revision and
\* settings: the LogicError or the payload, of which the model keeps id,
\* status_id, lead_id and the names of the properties the rules have set
mapToServiceObjectOn(util, objType, hullObject) ==
  IF throwsNoOutboundFields(util.revision, util.outbound)
  THEN [state |-> "raised", error |-> "MAPPING_NOOUTBOUNDFIELDS",
        objType |-> objType, hullObject |-> hullObject]
  ELSE [state |-> "returned",
        payload |-> defaultProperties(objType, hullObject, util.leadCreationStatusId),
        fields |-> customizedMapping(util.revision, util.outbound, hullObject)]

\* the guard at the head of mapToServiceObject: the settings hold no outbound
\* attribute mapping for the object type, and a LogicError
\* (MAPPING_NOOUTBOUNDFIELDS) is thrown
hasNoOutboundFields(mappings, objType) == objType \notin mappings

\* mapToServiceObject(objType, hullObject): the id and lead_id it sets from
\* its defaults. For a Lead, id is set when "closeio/id" is not null; for a
\* Contact, id is set when the user has "traits_closeio/id", and lead_id is
\* the account's "closeio/id" or null.
mapToServiceObject(objType, hullObject) ==
  LET svcObject == defaultProperties(objType, hullObject, "N/A")
  IN [id |-> svcObject.id, lead_id |-> svcObject.lead_id]

(* ------------------------------------------------------------------ *)
(* MappingUtil: the inbound mapping                                    *)
(* ------------------------------------------------------------------ *)
\* A field or attribute name as the words it is made of, the separator
\* between them and whether the words are capitalised: "custom.lcf1" is
\* <<"custom", "lcf1">> joined by ".", "Lead Source" is <<"lead", "source">>
\* capitalised and joined by " ".
Name(words, sep, caps) ==
  [defined |-> TRUE, words |-> words, sep |-> IF Len(words) > 1 THEN sep ELSE "",
   caps |-> caps]

\* undefined where a name is expected
UndefinedName == [defined |-> FALSE, words |-> <<>>, sep |-> "", caps |-> FALSE]

\* the empty string
EmptyName == Name(<<>>, "", FALSE)

\* _.snakeCase(string): the words in lower case joined by "_"; undefined is
\* converted to the empty string first
snakeCase(string) ==
  IF ~string.defined THEN EmptyName ELSE Name(string.words, "_", FALSE)

\* the field codes the inbound rules name
NameField == Name(<<"name">>, "", FALSE)
CreatedAtField == Name(<<"created", "at">>, "_", FALSE)
\* `custom.${c.id}`
customCode(id) == Name(<<"custom", id>>, ".", FALSE)
\* the id of a custom field as a string
idString(id) == Name(<<id>>, "", FALSE)

\* the ids of custom fields: lcf1 is in the registry, lcf9 is not
CustomFieldIds == {"lcf1", "lcf9"}
\* the registry of lead custom fields close.io returns: { id, name }
LeadCustomFields == <<[id |-> "lcf1", name |-> Name(<<"lead", "source">>, " ", TRUE)]>>

InboundFields == {NameField, CreatedAtField} \cup {customCode(id) : id \in CustomFieldIds}

\* the name of a Hull attribute: `closeio/${name}`, or name alone
AttributeName(group, name) == [group |-> group, name |-> name]

\* an entry of the attribute map: { value, operation }
Attribute(name, value, operation) == [name |-> name, value |-> value, operation |-> operation]

\* hullAttrs[name] = { value, operation }
setAttribute(hullAttrs, name, value, operation) ==
  {a \in hullAttrs : a.name # name} \cup {Attribute(name, value, operation)}

\* hullAttrs[name]
hasAttribute(hullAttrs, name) == \E a \in hullAttrs : a.name = name
getAttribute(hullAttrs, name) == CHOOSE a \in hullAttrs : a.name = name

\* _.get(serviceObject, m) for the fields of the model
fieldValue(serviceObject, m) ==
  IF m = NameField THEN serviceObject.name
  ELSE IF m = CreatedAtField THEN serviceObject.created_at
  ELSE serviceObject.custom[m.words[2]]

\* getHumanFieldName(field). In the later revision fieldIds holds
\* `custom.${c.id}` for each field of the registry, and for a field among them
\* the registry is searched for c.id === field; humanName is the name of the
\* field found, or undefined. In mapping-util.js this.customFields is never
\* set, so no field is among the ids.
getHumanFieldName(revision, leadCustomFields, field) ==
  LET customFields == IF revision = "part_001" THEN leadCustomFields ELSE <<>>
      fieldIds == {customCode(customFields[i].id) : i \in DOMAIN customFields}
      found == {i \in DOMAIN customFields : idString(customFields[i].id) = field}
      humanName == IF field \in fieldIds
                   THEN IF found = {} THEN UndefinedName
                        ELSE customFields[CHOOSE i \in found : \A j \in found : i <= j].name
                   ELSE field
  IN snakeCase(humanName)

\* the operation of the entries applyMapping writes: "set" in the later
\* revision, none in mapping-util.js
mappedOperation(revision) == IF revision = "part_001" THEN "set" ELSE ABSENT

\* applyMapping(mapping, serviceObject): the attributes after the first k
\* rules, each of which goes through the default branch of the switch
RECURSIVE applyMapping(_, _, _, _, _)
applyMapping(revision, leadCustomFields, mapping, serviceObject, k) ==
  IF k = 0 THEN {}
  ELSE LET hullAttrs == applyMapping(revision, leadCustomFields, mapping, serviceObject, k - 1)
           m == mapping[k]
       IN IF ~isNil(fieldValue(serviceObject, m))
          THEN setAttribute(hullAttrs,
                            AttributeName("closeio", getHumanFieldName(revision, leadCustomFields, m)),
                            fieldValue(serviceObject, m), mappedOperation(revision))
          ELSE hullAttrs

\* the attributes every inbound mapping writes
CloseioId == AttributeName("closeio", Name(<<"id">>, "", FALSE))
CloseioLeadId == AttributeName("closeio", Name(<<"lead", "id">>, "_", FALSE))
CloseioName == AttributeName("closeio", NameField)
CloseioCreatedAt == AttributeName("closeio", CreatedAtField)
CloseioUpdatedAt == AttributeName("closeio", Name(<<"updated", "at">>, "_", FALSE))
HullName == AttributeName("", NameField)

\* hObject.name = { value: hObject["closeio/name"].value, operation: "setIfNull" }
\* when "closeio/name" is there with a truthy string value; the later
\* revision only
withName(revision, hObject) ==
  IF /\ revision = "part_001"
     /\ hasAttribute(hObject, CloseioName)
     /\ getAttribute(hObject, CloseioName).value \notin {ABSENT, NULLV, ""}
  THEN setAttribute(hObject, HullName, getAttribute(hObject, CloseioName).value, "setIfNull")
  ELSE hObject

\* mapping.reduce throws a TypeError when mapping is undefined: in
\* mapping-util.js, which has no "|| []" behind <type>_attributes_inbound
throwsNoInboundMapping(revision, rules) ==
  revision = "mapping-util.js" /\ ~rules.defined

\* mapLeadToHullAccountAttributes(lead)
mapLeadToHullAccountAttributes(util, lead) ==
  IF throwsNoInboundMapping(util.revision, util.inbound)
  THEN [state |-> "raised", attributes |-> {}]
  ELSE LET mapping == listOrEmpty(util.inbound)
           mapped == applyMapping(util.revision, util.leadCustomFields, mapping, lead,
                                  Len(mapping))
           withId == setAttribute(mapped, CloseioId, lead.id, "set")
           named == withName(util.revision, withId)
           created == setAttribute(named, CloseioCreatedAt, lead.date_created, "setIfNull")
       IN [state |-> "returned",
           attributes |-> setAttribute(created, CloseioUpdatedAt, lead.date_updated, "set")]

\* mapContactToHullUserAttributes(contact)
mapContactToHullUserAttributes(util, contact) ==
  IF throwsNoInboundMapping(util.revision, util.inbound)
  THEN [state |-> "raised", attributes |-> {}]
  ELSE LET mapping == listOrEmpty(util.inbound)
           mapped == applyMapping(util.revision, util.leadCustomFields, mapping, contact,
                                  Len(mapping))
           withId == setAttribute(mapped, CloseioId, contact.id, "set")
           named == withName(util.revision, withId)
       IN [state |-> "returned",
           attributes |-> setAttribute(named, CloseioLeadId, contact.lead_id, "set")]

\* The platform applies an attribute to the record: "set" (or no operation)
\* overwrites, "setIfNull" writes when the record has no value.
applied(current, attribute) ==
  IF attribute.operation = "setIfNull" /\ ~isNil(current) THEN current
  ELSE attribute.value

\* The record of the platform after traits(attributes): the attribute
\* "closeio/id" is what an account holds as "closeio/id" and a user as
\* "traits_closeio/id", the property the outbound mapping and the filters read.
storedRecord(record, attributes) ==
  IF hasAttribute(attributes, CloseioId)
  THEN [record EXCEPT !.cioId = applied(@, getAttribute(attributes, CloseioId))]
  ELSE record

(* ------------------------------------------------------------------ *)
(* SyncAgent                                                           *)
(* ------------------------------------------------------------------ *)
\* buildAccountUpdateEnvelope(message): the cache is read under message.id
buildAccountUpdateEnvelope(message, cache) ==
  [id |-> message.id, cioId |-> message.cioId, segments |-> message.segments,
   write |-> mapToServiceObject("Lead", message),
   cachedReadId |-> JsOr(cache[MessageId(message.id[2])], NULLV),
   skipReason |-> NULLV, opsResult |-> ABSENT]

\* buildUserUpdateEnvelope(message): the cache is read under message.user.id
buildUserUpdateEnvelope(message, cache) ==
  [id |-> message.id, cioId |-> message.cioId, segments |-> message.segments,
   write |-> mapToServiceObject("Contact", message),
   cachedReadId |-> JsOr(cache[message.id], NULLV),
   skipReason |-> NULLV, opsResult |-> ABSENT]

\* a request to close.io
ServiceCall(op, entity, id, ok) == [op |-> op, entity |-> entity, id |-> id, ok |-> ok]

\* hasValidApiKey(): the key is not nil and is a string longer than 5
hasValidApiKey(key) == ~isNil(key)

\* the cache keys of the reference data
ReferenceKeys == {"raw_lead_status", "raw_lead_custom_fields"}

\* isInitialized(), were it to answer false on every agent
isInitializedNever(mappingUtil) == FALSE

\* isInitialized(): this.mappingUtil instanceof MappingUtil
isInitialized(mappingUtil) == mappingUtil

\* cache.wrap(key, work) with work a request for reference data: the cached
\* value when the cache holds the key; else the request, which is rejected
\* before it is sent when the API key is missing, and else is answered or not
wrap(cached, key, apikey, answered) ==
  IF key \in cached THEN [ok |-> TRUE, sent |-> FALSE]
  ELSE IF ~hasValidApiKey(apikey) THEN [ok |-> FALSE, sent |-> FALSE]
  ELSE [ok |-> answered, sent |-> TRUE]

\* await this.initialize(), the first statement of sendAccountMessages and
\* sendUserMessages: returns at once on an initialized agent; else loads the
\* lead statuses and then the lead custom fields through cache.wrap, and
\* constructs the MappingUtil. A wrap that rejects rejects initialize, and
\* with it the batch operation, before the next statement.
initialize ==
  /\ apc = "called"
  /\ IF isInitialized(initialized)
     THEN /\ apc' = "initialized"
          /\ UNCHANGED <<initialized, refCached, wraps, serviceCalls>>
     ELSE \E a1 \in BOOLEAN, a2 \in BOOLEAN :
          LET w1 == wrap(refCached, "raw_lead_status", apiKey, a1)
              c1 == IF w1.ok THEN refCached \cup {"raw_lead_status"} ELSE refCached
              w2 == wrap(c1, "raw_lead_custom_fields", apiKey, a2)
              c2 == IF w2.ok THEN c1 \cup {"raw_lead_custom_fields"} ELSE c1
              g1 == IF w1.sent
                    THEN <<ServiceCall("get", <<"none", 0>>, "raw_lead_status", w1.ok)>>
                    ELSE <<>>
              g2 == IF w2.sent
                    THEN <<ServiceCall("get", <<"none", 0>>, "raw_lead_custom_fields", w2.ok)>>
                    ELSE <<>>
          IN /\ wraps' = IF w1.ok
                         THEN wraps \o <<"raw_lead_status", "raw_lead_custom_fields">>
                         ELSE Append(wraps, "raw_lead_status")
             /\ serviceCalls' = IF w1.ok THEN serviceCalls \o g1 \o g2
                                ELSE serviceCalls \o g1
             /\ refCached' = IF w1.ok THEN c2 ELSE c1
             /\ initialized' = (w1.ok /\ w2.ok)
             /\ apc' = IF w1.ok /\ w2.ok THEN "initialized" ELSE "rejected"
  /\ UNCHANGED <<apiKey, attributeMappings, batchNo, hullLog>>
  /\ UNCHANGED filterVars
  /\ UNCHANGED dedupVars
  /\ UNCHANGED clientVars
  /\ UNCHANGED mappingVars
  /\ UNCHANGED concurrentVars
  /\ UNCHANGED fetchVars

\* The messages are deduplicated and Promise.all builds one envelope for each
\* deduplicated message. The mapping of a message may throw; nothing catches
\* it, Promise.all rejects and with it the batch operation.
buildEnvelopes ==
  /\ apc = "initialized"
  /\ deduped' = (IF fKind = "account" THEN deduplicateAccountUpdateMessages(messages)
                 ELSE deduplicateUserUpdateMessages(messages))
  /\ IF deduped' # <<>>
        /\ hasNoOutboundFields(attributeMappings,
                               IF fKind = "account" THEN "Lead" ELSE "Contact")
     THEN /\ envelopes' = <<>>
          /\ apc' = "rejected"
     ELSE /\ envelopes' = [k \in 1..Len(deduped') |->
                             IF fKind = "account"
                             THEN buildAccountUpdateEnvelope(deduped'[k], cacheStore)
                             ELSE buildUserUpdateEnvelope(deduped'[k], cacheStore)]
          /\ apc' = "built"
  /\ UNCHANGED <<synchronizedAccountSegments, filterCache, cacheStore, fKind, fpc,
                 pos, results, lookups, messages, dpc>>
  /\ UNCHANGED <<apiKey, attributeMappings, initialized, refCached, wraps, batchNo, serviceCalls, hullLog>>
  /\ UNCHANGED clientVars
  /\ UNCHANGED mappingVars
  /\ UNCHANGED concurrentVars
  /\ UNCHANGED fetchVars

\* const filterResults = this.filterUtil.filterAccounts(envelopes) (filterUsers):
\* the call is not awaited, so filterResults is the promise of the filter, which
\* goes on in the background, and filterResults.toSkip is undefined: the
\* forEach of the next statement throws a TypeError and the batch operation
\* rejects. Nothing after it runs: no skip is logged, no envelope is put or
\* posted, no result is applied and cache.set is never called.
callFilter ==
  /\ apc = "built"
  /\ fpc' = "running"
  /\ pos' = 1
  /\ results' = EmptyResults
  /\ lookups' = <<>>
  /\ apc' = "rejected"
  /\ UNCHANGED <<synchronizedAccountSegments, filterCache, cacheStore, fKind, envelopes>>
  /\ UNCHANGED dedupVars
  /\ UNCHANGED <<apiKey, attributeMappings, initialized, refCached, wraps, batchNo, serviceCalls, hullLog>>
  /\ UNCHANGED clientVars
  /\ UNCHANGED mappingVars
  /\ UNCHANGED concurrentVars
  /\ UNCHANGED fetchVars

\* the batch operation has settled and the filter it started is through
BatchEnded ==
  /\ apc \in {"resolved", "rejected"}
  /\ fpc \in {"idle", "resolved", "rejected"}

\* The same messages are sent to the agent again.
nextBatch ==
  /\ BatchEnded
  /\ batchNo < MaxBatches
  /\ batchNo' = batchNo + 1
  /\ apc' = "called"
  /\ fpc' = "idle"
  /\ envelopes' = <<>>
  /\ deduped' = <<>>
  /\ pos' = 1
  /\ results' = EmptyResults
  /\ lookups' = <<>>
  /\ UNCHANGED <<synchronizedAccountSegments, filterCache, cacheStore, fKind, messages, dpc>>
  /\ UNCHANGED <<apiKey, attributeMappings, initialized, refCached, wraps, serviceCalls, hullLog>>
  /\ UNCHANGED clientVars
  /\ UNCHANGED mappingVars
  /\ UNCHANGED concurrentVars
  /\ UNCHANGED fetchVars

(* ------------------------------------------------------------------ *)
(* SpecAgent: batches sent to one SyncAgent                            *)
(* ------------------------------------------------------------------ *)
\* the update messages of a batch
AccountMessages ==
  Messages(HullIds, {1}, {ABSENT} \cup ExplicitIds, {{}, {"s1"}}, {ABSENT}, {{}})

UserMessages ==
  Messages(HullIds, {1}, {ABSENT} \cup ExplicitIds, {{}, {"s1"}}, {ABSENT} \cup LeadIds, {{}})

\* The agent as its constructor leaves it: the FilterUtil is configured with
\* the segments and the lead identifier only, so its cache is undefined.
InitAgent ==
  /\ synchronizedAccountSegments = {"s1"}
  /\ filterCache = ABSENT
  /\ cacheStore = [k \in CacheKeys |-> ABSENT]
  /\ fKind \in {"account", "user"}
  /\ fpc = "idle"
  /\ envelopes = <<>>
  /\ pos = 1
  /\ results = EmptyResults
  /\ lookups = <<>>
  /\ messages \in Batches(IF fKind = "account" THEN AccountMessages ELSE UserMessages,
                          MaxMessages)
  /\ deduped = <<>>
  /\ dpc = "idle"
  /\ apiKey \in {"valid", ABSENT}
  /\ attributeMappings \in {ObjectTypes, {}}
  /\ initialized = FALSE
  /\ refCached \in {{}, ReferenceKeys}
  /\ wraps = <<>>
  /\ apc = "called"
  /\ batchNo = 1
  /\ serviceCalls = <<>>
  /\ hullLog = <<>>
  /\ cOp = "none"
  /\ settled = <<>>
  /\ traits = <<>>
  /\ MappingIdle
  /\ ConcurrentIdle
  /\ FetchIdle

NextAgent ==
  \/ initialize
  \/ buildEnvelopes
  \/ callFilter
  \/ filterSkipSegment
  \/ filterLookupFails
  \/ filterReturn
  \/ nextBatch

SpecAgent == InitAgent /\ [][NextAgent]_vars

(* ------------------------------------------------------------------ *)
(* SyncAgent: two batch operations in flight                           *)
(* ------------------------------------------------------------------ *)
\* One call of sendAccountMessages / sendUserMessages among several in flight
\* on the same agent:
\*   pc         "called" | "initialized" | "built" | "resolved" | "rejected"
\*   messages   the batch it was called with
\*   envelopes  the envelopes it has built
\*   filter     the promise of the filter it started and did not await:
\*              "idle" | "running" | "resolved" | "rejected"
Operation(pc, msgs, es, filter) ==
  [pc |-> pc, messages |-> msgs, envelopes |-> es, filter |-> filter]

\* everything but the operations in flight
singleBatchVars == <<filterVars, dedupVars, agentVars, clientVars, mappingVars, fetchVars>>

\* await this.initialize() of operation b
opInitialize(b) ==
  /\ ops[b].pc = "called"
  /\ isInitialized(initialized)
  /\ ops' = [ops EXCEPT ![b].pc = "initialized"]
  /\ UNCHANGED singleBatchVars

\* Operation b deduplicates its messages and builds their envelopes, reading
\* the cache for each.
opBuildEnvelopes(b) ==
  /\ ops[b].pc = "initialized"
  /\ LET unique == IF fKind = "account"
                   THEN deduplicateAccountUpdateMessages(ops[b].messages)
                   ELSE deduplicateUserUpdateMessages(ops[b].messages)
     IN ops' = IF unique # <<>>
                  /\ hasNoOutboundFields(attributeMappings,
                                         IF fKind = "account" THEN "Lead" ELSE "Contact")
               THEN [ops EXCEPT ![b].pc = "rejected"]
               ELSE [ops EXCEPT ![b].pc = "built",
                                ![b].envelopes =
                                   [k \in 1..Len(unique) |->
                                      IF fKind = "account"
                                      THEN buildAccountUpdateEnvelope(unique[k], cacheStore)
                                      ELSE buildUserUpdateEnvelope(unique[k], cacheStore)]]
  /\ UNCHANGED singleBatchVars

\* Operation b calls the filter without awaiting it and reads toSkip of the
\* promise: the TypeError rejects the operation, and the filter goes on.
opCallFilter(b) ==
  /\ ops[b].pc = "built"
  /\ ops' = [ops EXCEPT ![b].pc = "rejected", ![b].filter = "running"]
  /\ UNCHANGED singleBatchVars

\* The filter operation b left behind goes through its envelopes: it resolves
\* when none is in a synchronized segment, and rejects at the first lookup
\* when the FilterUtil has no cache.
opFilterEnds(b) ==
  /\ ops[b].filter = "running"
  /\ filterCache = ABSENT
  /\ ops' = [ops EXCEPT ![b].filter =
               IF \E k \in DOMAIN ops[b].envelopes :
                    matchesSynchronizedAccountSegments(ops[b].envelopes[k],
                                                       synchronizedAccountSegments)
               THEN "rejected" ELSE "resolved"]
  /\ UNCHANGED singleBatchVars

(* ------------------------------------------------------------------ *)
(* SpecConcurrent: two batch operations for the same entity            *)
(* ------------------------------------------------------------------ *)
\* the entity both operations carry
SharedEntity == HullId(1)

\* the operations in flight
Operations == {1, 2}

\* Two calls of the same batch operation on one initialized agent with an
\* empty identity cache; each batch holds a message of the shared entity,
\* which has no external id.
InitConcurrent ==
  /\ synchronizedAccountSegments = {"s1"}
  /\ filterCache = ABSENT
  /\ cacheStore = [k \in CacheKeys |-> ABSENT]
  /\ fKind \in {"account", "user"}
  /\ fpc = "idle"
  /\ envelopes = <<>>
  /\ pos = 1
  /\ results = EmptyResults
  /\ lookups = <<>>
  /\ messages = <<>>
  /\ deduped = <<>>
  /\ dpc = "idle"
  /\ apiKey = "valid"
  /\ attributeMappings = ObjectTypes
  /\ initialized = TRUE
  /\ refCached = ReferenceKeys
  /\ wraps = <<>>
  /\ apc = "idle"
  /\ batchNo = 0
  /\ serviceCalls = <<>>
  /\ hullLog = <<>>
  /\ cOp = "none"
  /\ settled = <<>>
  /\ traits = <<>>
  /\ MappingIdle
  /\ FetchIdle
  /\ \E batch \in [Operations ->
                    {ms \in Batches(IF fKind = "account" THEN AccountMessages
                                    ELSE UserMessages, 1) :
                       /\ Len(ms) = 1
                       /\ ms[1].id = SharedEntity
                       /\ ms[1].cioId = ABSENT}] :
       ops = [b \in Operations |-> Operation("called", batch[b], <<>>, "idle")]

NextConcurrent ==
  \/ \E b \in Operations : opInitialize(b)
  \/ \E b \in Operations : opBuildEnvelopes(b)
  \/ \E b \in Operations : opCallFilter(b)
  \/ \E b \in Operations : opFilterEnds(b)

SpecConcurrent == InitConcurrent /\ [][NextConcurrent]_vars

(* ------------------------------------------------------------------ *)
(* ServiceClient: the envelope methods (service-client.js)             *)
(* ------------------------------------------------------------------ *)
\* how close.io answers a request: with status 200, with another status
\* (superagent rejects with an error that has a response), or not at all
\* (timeout or network error: the error has no response)
Outcomes == {"ok", "error", "timeout"}

\* the ids of the contacts close.io creates
NewContactIds == {"c1"}

\* An envelope as the service client and the result callbacks read it:
\*   id               envelope.hullUser.id
\*   write            envelope.cioContactWrite, as the agent builds it
\*   cioWriteContact  the property postContactEnvelope / updateContactEnvelope
\*                    pass as the request data; defined is FALSE where the
\*                    envelope has no such property
\*   read             envelope.cioContactRead, the read record the agent reads
\*                    (its id), null after the build
\*   cioReadContact   the property the envelope methods store the response in
\*   error            envelope.error
ClientEnvelopes(ids) ==
  [id : ids, write : [id : {ABSENT} \cup ExplicitIds, lead_id : LeadIds],
   cioWriteContact : {[defined |-> FALSE, id |-> ABSENT]}
                       \cup [defined : {TRUE}, id : {ABSENT} \cup ExplicitIds],
   read : {NULLV}, cioReadContact : {ABSENT}, error : {NULLV}, opsResult : {ABSENT}]

ClientEnvelopeLists(n) ==
  UNION {{es \in [1..k -> ClientEnvelopes(HullIds)] :
            \A i \in 1..k : es[i].id = HullId(i)} : k \in 0..n}

\* how a promise of the client ended: state is "resolved", "rejected" or
\* "thrown" (the call threw before it returned a promise); sent tells whether a
\* request went to close.io; response is ABSENT on an error without response;
\* body is response.body
Ended(state, sent, response, body) ==
  [state |-> state, sent |-> sent, response |-> response, body |-> body]

\* this.agent.post(..).send(data) / this.agent.put(..).send(data)
request(outcome, id) ==
  IF outcome = "ok" THEN Ended("resolved", TRUE, "response", id)
  ELSE IF outcome = "error" THEN Ended("rejected", TRUE, "response", "errorBody")
  ELSE Ended("rejected", TRUE, ABSENT, ABSENT)

\* postContact(data)
postContact(key, data, outcome, newId) ==
  IF ~hasValidApiKey(key) THEN Ended("rejected", FALSE, ABSENT, ABSENT)
  ELSE request(outcome, newId)

\* putContact(data): data.id of an undefined data throws a TypeError
putContact(key, data, outcome, newId) ==
  IF ~hasValidApiKey(key) THEN Ended("rejected", FALSE, ABSENT, ABSENT)
  ELSE IF ~data.defined THEN Ended("thrown", FALSE, ABSENT, ABSENT)
  ELSE IF data.id = ABSENT THEN Ended("rejected", FALSE, ABSENT, ABSENT)
  ELSE request(outcome, data.id)

\* .then(response => ..).catch(error => ..) of postContactEnvelope and
\* updateContactEnvelope on the promise r: the response body is stored in
\* enrichedEnvelope.cioReadContact; the catch handler reads
\* error.response.body, which throws a TypeError on an error without a
\* response: the promise returned rejects and the enriched clone is lost
enrich(envelope, r) ==
  IF r.state = "thrown" THEN [state |-> "thrown", envelope |-> envelope]
  ELSE IF r.state = "resolved"
  THEN [state |-> "resolved",
        envelope |-> [envelope EXCEPT !.cioReadContact = r.body, !.opsResult = "success"]]
  ELSE IF r.response = ABSENT
  THEN [state |-> "rejected", envelope |-> envelope]
  ELSE [state |-> "resolved",
        envelope |-> [envelope EXCEPT !.opsResult = "error", !.error = r.body]]

\* why the promise r of postContact / putContact did not resolve: the API key
\* is missing, the request data is undefined, the data has no id, close.io
\* answered with an error status, or there was no answer
failureCause(key, r) ==
  IF r.state = "resolved" THEN "none"
  ELSE IF ~hasValidApiKey(key) THEN "apiKey"
  ELSE IF r.state = "thrown" THEN "data"
  ELSE IF ~r.sent THEN "id"
  ELSE IF r.response # ABSENT THEN "status"
  ELSE "noResponse"

\* postContactEnvelope(envelope)
postContactEnvelope(key, envelope, outcome, newId) ==
  enrich(envelope, postContact(key, envelope.cioWriteContact, outcome, newId))

\* updateContactEnvelope(envelope)
updateContactEnvelope(key, envelope, outcome, newId) ==
  enrich(envelope, putContact(key, envelope.cioWriteContact, outcome, newId))

\* an entry of the Hull logger
LogEntry(event, entity, data) == [event |-> event, entity |-> entity, data |-> data]

\* The callback sendUserMessages / sendAccountMessages maps over the enriched
\* envelopes: a user envelope whose cioContactRead is null, or an account
\* envelope whose error is not null, throws into the catch block, which logs
\* outgoing.<kind>.error; any other has its read record mapped to Hull
\* attributes and written with traits(), its id stored in the cache under
\* message.id when it was inserted, and outgoing.<kind>.success logged.
resultFailed(kind, envelope) ==
  IF kind = "user" THEN envelope.read = NULLV ELSE envelope.error # NULLV

resultLog(kind, envelope) ==
  IF resultFailed(kind, envelope)
  THEN LogEntry("outgoing." \o kind \o ".error", envelope.id,
                IF kind = "user" THEN JsOr(envelope.error, "Unkown error")
                ELSE envelope.error)
  ELSE LogEntry("outgoing." \o kind \o ".success", envelope.id, envelope.write.id)

\* the attributes written to Hull: the read record, with the lead_id of the
\* write payload for a contact
resultTraits(kind, envelope) ==
  [entity |-> envelope.id, id |-> envelope.read,
   lead_id |-> IF kind = "user" THEN envelope.write.lead_id ELSE ABSENT]

\* One envelope is handed to postContactEnvelope or updateContactEnvelope and
\* the promise returned settles.
callEnvelopeMethod ==
  /\ cOp \in {"post", "update"}
  /\ \E k \in 1..Len(envelopes), outcome \in Outcomes, newId \in NewContactIds :
        /\ settled[k].state = "none"
        /\ LET data == envelopes[k].cioWriteContact
               p == IF cOp = "post" THEN postContact(apiKey, data, outcome, newId)
                    ELSE putContact(apiKey, data, outcome, newId)
               e == IF cOp = "post"
                    THEN postContactEnvelope(apiKey, envelopes[k], outcome, newId)
                    ELSE updateContactEnvelope(apiKey, envelopes[k], outcome, newId)
           IN /\ settled' = [settled EXCEPT ![k] = [state |-> e.state,
                                                    envelope |-> e.envelope,
                                                    cause |-> failureCause(apiKey, p)]]
              /\ serviceCalls' =
                   IF p.sent
                   THEN Append(serviceCalls,
                               ServiceCall(IF cOp = "post" THEN "post" ELSE "put",
                                           envelopes[k].id, data.id, p.state = "resolved"))
                   ELSE serviceCalls
  /\ UNCHANGED <<cOp, traits>>
  /\ UNCHANGED filterVars
  /\ UNCHANGED dedupVars
  /\ UNCHANGED <<apiKey, attributeMappings, initialized, refCached, wraps, apc, batchNo, hullLog>>
  /\ UNCHANGED mappingVars
  /\ UNCHANGED concurrentVars
  /\ UNCHANGED fetchVars

\* The enriched envelope of a resolved call goes through the result callback
\* of sendUserMessages.
applyEnriched ==
  /\ cOp \in {"post", "update"}
  /\ \E k \in 1..Len(envelopes) :
        /\ settled[k].state = "resolved"
        /\ LET e == settled[k].envelope
           IN /\ hullLog' = Append(hullLog, resultLog("user", e))
              /\ traits' = IF resultFailed("user", e) THEN traits
                           ELSE Append(traits, resultTraits("user", e))
              /\ cacheStore' = IF resultFailed("user", e) \/ cOp # "post" THEN cacheStore
                               ELSE [cacheStore EXCEPT ![MessageId(e.id[2])] = e.read]
        /\ settled' = [settled EXCEPT ![k].state = "applied"]
  /\ UNCHANGED <<synchronizedAccountSegments, filterCache, fKind, fpc, envelopes, pos,
                 results, lookups>>
  /\ UNCHANGED dedupVars
  /\ UNCHANGED <<apiKey, attributeMappings, initialized, refCached, wraps, apc, batchNo, serviceCalls, cOp>>
  /\ UNCHANGED mappingVars
  /\ UNCHANGED concurrentVars
  /\ UNCHANGED fetchVars

(* ------------------------------------------------------------------ *)
(* SpecClient: the envelope methods called on any list of envelopes    *)
(* ------------------------------------------------------------------ *)
\* no call has been made for the envelope
NotCalled(envelope) == [state |-> "none", envelope |-> envelope, cause |-> "none"]

InitClient ==
  /\ synchronizedAccountSegments = {"s1"}
  /\ filterCache = ABSENT
  /\ cacheStore = [k \in CacheKeys |-> ABSENT]
  /\ fKind = "user"
  /\ fpc = "idle"
  /\ envelopes \in ClientEnvelopeLists(MaxEnvelopes)
  /\ pos = 1
  /\ results = EmptyResults
  /\ lookups = <<>>
  /\ messages = <<>>
  /\ deduped = <<>>
  /\ dpc = "idle"
  /\ apiKey \in {"valid", ABSENT}
  /\ attributeMappings = ObjectTypes
  /\ initialized = TRUE
  /\ refCached = ReferenceKeys
  /\ wraps = <<>>
  /\ apc = "idle"
  /\ batchNo = 0
  /\ serviceCalls = <<>>
  /\ hullLog = <<>>
  /\ cOp \in {"post", "update"}
  /\ settled = [k \in 1..Len(envelopes) |-> NotCalled(envelopes[k])]
  /\ traits = <<>>
  /\ MappingIdle
  /\ ConcurrentIdle
  /\ FetchIdle

NextClient ==
  \/ callEnvelopeMethod
  \/ applyEnriched

SpecClient == InitClient /\ [][NextClient]_vars

(* ------------------------------------------------------------------ *)
(* SyncAgent: dispatch and result application                          *)
(* ------------------------------------------------------------------ *)
\* An envelope of the filter results as the rest of sendUserMessages /
\* sendAccountMessages reads it.
DispatchEnvelopes(ids) ==
  [id : ids, write : [id : {ABSENT} \cup ExplicitIds, lead_id : LeadIds],
   read : {NULLV}, error : {NULLV}, skipReason : {NULLV}, opsResult : {ABSENT}]

\* the filter results over the envelopes es, given the list of each envelope
RECURSIVE resultsOf(_, _, _)
resultsOf(es, lists, k) ==
  IF k = 0 THEN EmptyResults
  ELSE push(resultsOf(es, lists, k - 1), lists[k], k)

\* the references (indices) of a result list
Refs(list) == {list[i] : i \in DOMAIN list}

\* putLeadEnvelopes / postLeadEnvelopes / putContactEnvelopes /
\* postContactEnvelopes answer for one envelope: the enriched envelope holds
\* the read record or an error
enrichOne(envelope, answered, id) ==
  IF answered
  THEN [envelope EXCEPT !.read = id, !.opsResult = "success"]
  ELSE [envelope EXCEPT !.error = "errorBody", !.opsResult = "error"]

\* await Promise.all(updatedEnvelopes.map(..)), were it not awaited: the
\* operation goes on as soon as the envelopes have come back
awaitCallbacksNotAwaited(refs, st) ==
  \A k \in refs : st[k].state \in {"resolved", "applied"}

\* await Promise.all(updatedEnvelopes.map(async updatedEnvelope => ..)): the
\* operation goes on when the callback of every envelope has ended
awaitCallbacks(refs, st) ==
  \A k \in refs : st[k].state = "applied"

\* filterResults.toSkip.forEach: outgoing.<kind>.skip is logged for each
logSkips ==
  /\ apc = "filtered"
  /\ hullLog' = hullLog \o [i \in 1..Len(results.toSkip) |->
                              LogEntry("outgoing." \o fKind \o ".skip",
                                       envelopes[results.toSkip[i]].id,
                                       envelopes[results.toSkip[i]].skipReason)]
  /\ apc' = "skipsLogged"
  /\ UNCHANGED filterVars
  /\ UNCHANGED dedupVars
  /\ UNCHANGED <<apiKey, attributeMappings, initialized, refCached, wraps, batchNo, serviceCalls>>
  /\ UNCHANGED clientVars
  /\ UNCHANGED mappingVars
  /\ UNCHANGED concurrentVars
  /\ UNCHANGED fetchVars

\* this.serviceClient.put*Envelopes(filterResults.toUpdate): the requests go out
putEnvelopes ==
  /\ apc = "skipsLogged"
  /\ settled' = [k \in DOMAIN settled |->
                   IF k \in Refs(results.toUpdate)
                   THEN [settled[k] EXCEPT !.state = "pending"] ELSE settled[k]]
  /\ cOp' = "update"
  /\ apc' = "put"
  /\ UNCHANGED filterVars
  /\ UNCHANGED dedupVars
  /\ UNCHANGED <<apiKey, attributeMappings, initialized, refCached, wraps, batchNo, serviceCalls, hullLog>>
  /\ UNCHANGED traits
  /\ UNCHANGED mappingVars
  /\ UNCHANGED concurrentVars
  /\ UNCHANGED fetchVars

\* close.io answers the request of one envelope, or the request fails
answer ==
  /\ apc \in {"put", "post"}
  /\ \E k \in DOMAIN settled, answered \in BOOLEAN, newId \in NewContactIds :
        /\ settled[k].state = "pending"
        /\ settled' = [settled EXCEPT ![k] =
                         [state |-> "resolved",
                          envelope |-> enrichOne(settled[k].envelope, answered,
                                                 IF apc = "put"
                                                 THEN settled[k].envelope.write.id
                                                 ELSE newId),
                          cause |-> IF answered THEN "none" ELSE "status"]]
        /\ serviceCalls' = Append(serviceCalls,
                                  ServiceCall(apc, envelopes[k].id,
                                              envelopes[k].write.id, answered))
  /\ UNCHANGED filterVars
  /\ UNCHANGED dedupVars
  /\ UNCHANGED <<apiKey, attributeMappings, initialized, refCached, wraps, apc, batchNo, hullLog>>
  /\ UNCHANGED <<cOp, traits>>
  /\ UNCHANGED mappingVars
  /\ UNCHANGED concurrentVars
  /\ UNCHANGED fetchVars

\* the promise of put*Envelopes / post*Envelopes has resolved: every envelope
\* of the list has come back
returned(refs, st) == \A k \in refs : st[k].state \in {"resolved", "applied"}

\* the list the operation is dispatching
dispatching == IF apc = "put" THEN Refs(results.toUpdate) ELSE Refs(results.toInsert)

\* the catch block of the callback when the write to Hull has thrown: the
\* error is logged, except in the insert callback of sendAccountMessages,
\* which logs insertedEnvelope.error (null there)
writeFailedLog(kind, op, envelope) ==
  LogEntry("outgoing." \o kind \o ".error", envelope.id,
           IF kind = "account" /\ op = "post" THEN envelope.error ELSE "traitsError")

\* the insert callback, were the cache written before the write to Hull
cacheSetReachedBeforeTraits(kind, op, envelope, written) ==
  op = "post" /\ ~resultFailed(kind, envelope)

\* await this.cache.set(insertedEnvelope.message.id, <read>.id) is reached: in
\* the insert callback only, after the check of the result did not throw and
\* after the awaited traits call has resolved
cacheSetReached(kind, op, envelope, written) ==
  op = "post" /\ ~resultFailed(kind, envelope) /\ written

\* The callback of updatedEnvelopes.map / insertedEnvelopes.map for one
\* enriched envelope. The write to Hull (the mapping of the read record and
\* the traits call) resolves or throws; whatever is thrown in the try block is
\* caught and logged.
applyResult ==
  /\ apc \in {"put", "post"}
  /\ returned(dispatching, settled)
  /\ \E k \in dispatching, written \in BOOLEAN :
        /\ settled[k].state = "resolved"
        /\ LET e == settled[k].envelope
               failed == resultFailed(fKind, e)
           IN /\ hullLog' = Append(hullLog, IF failed \/ written THEN resultLog(fKind, e)
                                            ELSE writeFailedLog(fKind, apc, e))
              /\ traits' = IF failed \/ ~written THEN traits
                           ELSE Append(traits, resultTraits(fKind, e))
              /\ cacheStore' = IF cacheSetReached(fKind, apc, e, written)
                               THEN [cacheStore EXCEPT ![MessageId(e.id[2])] = e.read]
                               ELSE cacheStore
              /\ settled' = [settled EXCEPT ![k].state = "applied",
                                            ![k].cause = IF ~failed /\ ~written THEN "traits"
                                                         ELSE @]
  /\ UNCHANGED <<synchronizedAccountSegments, filterCache, fKind, fpc, envelopes, pos,
                 results, lookups>>
  /\ UNCHANGED dedupVars
  /\ UNCHANGED <<apiKey, attributeMappings, initialized, refCached, wraps, apc, batchNo, serviceCalls, cOp>>
  /\ UNCHANGED mappingVars
  /\ UNCHANGED concurrentVars
  /\ UNCHANGED fetchVars

\* this.serviceClient.post*Envelopes(filterResults.toInsert), after the
\* callbacks of the updated envelopes: the requests go out
postEnvelopes ==
  /\ apc = "put"
  /\ returned(Refs(results.toUpdate), settled)
  /\ awaitCallbacks(Refs(results.toUpdate), settled)
  /\ settled' = [k \in DOMAIN settled |->
                   IF k \in Refs(results.toInsert)
                   THEN [settled[k] EXCEPT !.state = "pending"] ELSE settled[k]]
  /\ cOp' = "post"
  /\ apc' = "post"
  /\ UNCHANGED filterVars
  /\ UNCHANGED dedupVars
  /\ UNCHANGED <<apiKey, attributeMappings, initialized, refCached, wraps, batchNo, serviceCalls, hullLog>>
  /\ UNCHANGED traits
  /\ UNCHANGED mappingVars
  /\ UNCHANGED concurrentVars
  /\ UNCHANGED fetchVars

\* the callbacks of the inserted envelopes have ended: the operation resolves
resolveBatch ==
  /\ apc = "post"
  /\ returned(Refs(results.toInsert), settled)
  /\ awaitCallbacks(Refs(results.toInsert), settled)
  /\ apc' = "resolved"
  /\ UNCHANGED filterVars
  /\ UNCHANGED dedupVars
  /\ UNCHANGED <<apiKey, attributeMappings, initialized, refCached, wraps, batchNo, serviceCalls, hullLog>>
  /\ UNCHANGED clientVars
  /\ UNCHANGED mappingVars
  /\ UNCHANGED concurrentVars
  /\ UNCHANGED fetchVars

(* ------------------------------------------------------------------ *)
(* SpecDispatch: the batch operation from the filter results on        *)
(* ------------------------------------------------------------------ *)
\* The statements of sendUserMessages / sendAccountMessages that follow the
\* filter, started with filter results at hand: each envelope is in one list,
\* the skipped ones with their reason.
InitDispatch ==
  /\ synchronizedAccountSegments = {"s1"}
  /\ filterCache = ABSENT
  /\ cacheStore = [k \in CacheKeys |-> ABSENT]
  /\ fKind \in {"account", "user"}
  /\ fpc = "resolved"
  /\ \E n \in 0..MaxEnvelopes :
       \E es \in [1..n -> DispatchEnvelopes(HullIds)],
          lists \in [1..n -> {"toSkip", "toInsert", "toUpdate"}] :
         /\ \A i \in 1..n : es[i].id = HullId(i)
         /\ envelopes = [i \in 1..n |->
                           IF lists[i] = "toSkip"
                           THEN [es[i] EXCEPT !.skipReason =
                                                 OPERATION_SKIP_NOMATCHACCOUNTSEGMENTS,
                                              !.opsResult = "skip"]
                           ELSE es[i]]
         /\ results = resultsOf(es, lists, n)
  /\ pos = Len(envelopes) + 1
  /\ lookups = <<>>
  /\ messages = <<>>
  /\ deduped = <<>>
  /\ dpc = "idle"
  /\ apiKey = "valid"
  /\ attributeMappings = ObjectTypes
  /\ initialized = TRUE
  /\ refCached = ReferenceKeys
  /\ wraps = <<>>
  /\ apc = "filtered"
  /\ batchNo = 1
  /\ serviceCalls = <<>>
  /\ hullLog = <<>>
  /\ cOp = "none"
  /\ settled = [k \in 1..Len(envelopes) |-> NotCalled(envelopes[k])]
  /\ traits = <<>>
  /\ MappingIdle
  /\ ConcurrentIdle
  /\ FetchIdle

NextDispatch ==
  \/ logSkips
  \/ putEnvelopes
  \/ answer
  \/ applyResult
  \/ postEnvelopes
  \/ resolveBatch

SpecDispatch == InitDispatch /\ [][NextDispatch]_vars

(* ------------------------------------------------------------------ *)
(* MappingUtil: calls on one util                                      *)
(* ------------------------------------------------------------------ *)
\* normalizeUrl(original) is called and returns or throws
callNormalizeUrl ==
  /\ mpc = "normalizeUrl"
  /\ urlCall.state = "called"
  /\ LET r == normalizeUrl(urlCall.original)
     IN urlCall' = [original |-> urlCall.original,
                    state |-> IF r.raised THEN "raised" ELSE "returned",
                    value |-> r.value]
  /\ UNCHANGED <<mappingSettings, mpc, cioRecord, hullAttributes, hullRecord, svcResult>>
  /\ UNCHANGED filterVars
  /\ UNCHANGED dedupVars
  /\ UNCHANGED agentVars
  /\ UNCHANGED clientVars
  /\ UNCHANGED concurrentVars
  /\ UNCHANGED fetchVars

\* mapLeadToHullAccountAttributes(lead) / mapContactToHullUserAttributes(contact)
\* is called on a record close.io returned
callMapToHullAttributes ==
  /\ mpc = "inbound"
  /\ hullAttributes' = (IF cioRecord.type = "Lead"
                        THEN mapLeadToHullAccountAttributes(mappingSettings, cioRecord)
                        ELSE mapContactToHullUserAttributes(mappingSettings, cioRecord))
  /\ mpc' = IF hullAttributes'.state = "returned" THEN "traits" ELSE "raised"
  /\ UNCHANGED <<mappingSettings, urlCall, cioRecord, hullRecord, svcResult>>
  /\ UNCHANGED filterVars
  /\ UNCHANGED dedupVars
  /\ UNCHANGED agentVars
  /\ UNCHANGED clientVars
  /\ UNCHANGED concurrentVars
  /\ UNCHANGED fetchVars

\* asAccount(ident).traits(attributes) / asUser(ident).traits(attributes): the
\* platform applies the attributes to the account or user
storeTraits ==
  /\ mpc = "traits"
  /\ hullRecord' = storedRecord(hullRecord, hullAttributes.attributes)
  /\ mpc' = "mapToServiceObject"
  /\ UNCHANGED <<mappingSettings, urlCall, cioRecord, hullAttributes, svcResult>>
  /\ UNCHANGED filterVars
  /\ UNCHANGED dedupVars
  /\ UNCHANGED agentVars
  /\ UNCHANGED clientVars
  /\ UNCHANGED concurrentVars
  /\ UNCHANGED fetchVars

\* mapToServiceObject(objType, hullObject) is called and returns or throws
callMapToServiceObject ==
  /\ mpc = "mapToServiceObject"
  /\ svcResult.state = "called"
  /\ svcResult' = mapToServiceObjectOn(mappingSettings, hullRecord.objType, hullRecord)
  /\ UNCHANGED <<mappingSettings, mpc, urlCall, cioRecord, hullAttributes, hullRecord>>
  /\ UNCHANGED filterVars
  /\ UNCHANGED dedupVars
  /\ UNCHANGED agentVars
  /\ UNCHANGED clientVars
  /\ UNCHANGED concurrentVars
  /\ UNCHANGED fetchVars

(* ------------------------------------------------------------------ *)
(* SpecMapping: the methods of one MappingUtil called on any input     *)
(* ------------------------------------------------------------------ *)
\* the lists of outbound rules of the object type of the call
OutboundRuleLists ==
  {RuleList(FALSE, <<>>)} \cup
  {RuleList(TRUE, list) : list \in UNION {[1..n -> OutboundMappings] : n \in 0..2}}

\* the lists of inbound rules of the type of the record
InboundRuleLists ==
  {RuleList(FALSE, <<>>)} \cup
  {RuleList(TRUE, list) : list \in UNION {[1..n -> InboundFields] : n \in 0..2}}

\* the settings new MappingUtil(settings) is given
MappingUtilSettings(statuses, outbound, inbound, registries) ==
  [revision : Revisions,
   leadCreationStatusId : {normalizedLeadStatus(v) : v \in statuses},
   outbound : outbound, inbound : inbound, leadCustomFields : registries]

\* the accounts and users of Hull as mapToServiceObject reads them:
\*   cioId    "closeio/id" of the account / "traits_closeio/id" of the user
\*   lead_id  "closeio/id" of the account of the user
\*   domain   the attribute the outbound rules of the model read
HullRecords(cioIds) ==
  [objType : ObjectTypes, cioId : cioIds, lead_id : {ABSENT} \cup LeadIds,
   domain : {ABSENT, "acme.com"}]

\* the leads and contacts close.io returns
CioRecords ==
  [type : ObjectTypes, id : ExplicitIds, lead_id : LeadIds,
   date_created : {"t1"}, date_updated : {"t2"},
   name : {ABSENT, "", "Acme"}, created_at : {"t0"},
   custom : [CustomFieldIds -> {ABSENT, "v"}]]

NoCall == [state |-> "none"]
NoRecord == [type |-> "none"]

InitMapping ==
  /\ \/ /\ mpc = "normalizeUrl"
        /\ mappingSettings \in MappingUtilSettings({ABSENT}, {RuleList(FALSE, <<>>)},
                                                   {RuleList(FALSE, <<>>)}, {<<>>})
        /\ urlCall \in [original : RawUrls, state : {"called"}, value : {Undefined}]
        /\ cioRecord = NoRecord
        /\ hullRecord = NoRecord
        /\ svcResult = NoCall
     \/ /\ mpc = "mapToServiceObject"
        /\ mappingSettings \in MappingUtilSettings({ABSENT} \cup UseDefaultStatus \cup LeadStatusIds,
                                                   OutboundRuleLists,
                                                   {RuleList(FALSE, <<>>)}, {<<>>})
        /\ urlCall = NoCall
        /\ cioRecord = NoRecord
        /\ hullRecord \in HullRecords({ABSENT, NULLV} \cup ExplicitIds)
        /\ svcResult = [state |-> "called"]
     \/ /\ mpc = "inbound"
        /\ mappingSettings \in MappingUtilSettings({ABSENT},
                                                   {RuleList(FALSE, <<>>),
                                                    RuleList(TRUE, <<OutboundMapping("domain", "url")>>)},
                                                   InboundRuleLists, {<<>>, LeadCustomFields})
        /\ urlCall = NoCall
        /\ cioRecord \in CioRecords
        /\ hullRecord \in [objType : {cioRecord.type}, cioId : {ABSENT} \cup CachedIds,
                           lead_id : LeadIds, domain : {"acme.com"}]
        /\ svcResult = [state |-> "called"]
  /\ hullAttributes = [state |-> "none", attributes |-> {}]
  /\ synchronizedAccountSegments = {}
  /\ filterCache = ABSENT
  /\ cacheStore = [k \in CacheKeys |-> ABSENT]
  /\ fKind = "none"
  /\ fpc = "idle"
  /\ envelopes = <<>>
  /\ pos = 1
  /\ results = EmptyResults
  /\ lookups = <<>>
  /\ messages = <<>>
  /\ deduped = <<>>
  /\ dpc = "idle"
  /\ apiKey = "valid"
  /\ attributeMappings = ObjectTypes
  /\ initialized = TRUE
  /\ refCached = ReferenceKeys
  /\ wraps = <<>>
  /\ apc = "idle"
  /\ batchNo = 0
  /\ serviceCalls = <<>>
  /\ hullLog = <<>>
  /\ cOp = "none"
  /\ settled = <<>>
  /\ traits = <<>>
  /\ ConcurrentIdle
  /\ FetchIdle

NextMapping ==
  \/ callNormalizeUrl
  \/ callMapToHullAttributes
  \/ storeTraits
  \/ callMapToServiceObject

SpecMapping == InitMapping /\ [][NextMapping]_vars

(* ------------------------------------------------------------------ *)
(* SyncAgent: fetchUpdatedLeads                                        *)
(* ------------------------------------------------------------------ *)
\* A lead of the stream as fetchUpdatedLeads handles it:
\*   account   the call asAccount.traits(..) for the lead:
\*             "none" | "pending" | "written" | "failed"
\*   contacts  the call asUser.account(..).traits(..) for each of lead.contacts
\*   thrown    the callback of .then has thrown before the contacts were written
FetchedLead(account, contacts, thrown) ==
  [account |-> account, contacts |-> contacts, thrown |-> thrown]

\* the leads of chunk c of the stream
chunkLeads(stream, c) == {l \in DOMAIN stream.chunkOf : stream.chunkOf[l] = c}

\* the number of chunks of the stream
chunkCount(stream) ==
  IF stream.chunkOf = <<>> THEN 0 ELSE stream.chunkOf[Len(stream.chunkOf)]

\* the promise the callback of leads.map returns for a lead has resolved: the
\* account write was rejected and caught, or it resolved and the callback of
\* .then has thrown (caught as well) or every contact write has ended, each
\* with its own catch
leadSettled(lead) ==
  \/ lead.account = "failed"
  \/ /\ lead.account = "written"
     /\ \/ lead.thrown
        \/ \A c \in DOMAIN lead.contacts : lead.contacts[c] \in {"written", "failed"}

\* pipeStreamToPromise(stream, callback) resolves: the stream has ended and
\* the promise the callback returned for every chunk has resolved
pipeResolved(stream, leads) ==
  /\ stream.state = "ended"
  /\ \A l \in DOMAIN leads : leadSettled(leads[l])

\* pipeStreamToPromise(stream, callback) rejects: the stream has failed
pipeRejected(stream) == stream.state = "failed"

\* the contact writes, were they started whatever became of the account write
contactWritesStartAnyway(accountWritten) == TRUE

\* asAccount.traits(..).then(() => Promise.all(lead.contacts.map(..))): the
\* contacts are gone through when the account write has resolved
contactWritesStart(accountWritten) == accountWritten

\* everything but the fetch
notFetchVars == <<filterVars, dedupVars, agentVars, clientVars, mappingVars, concurrentVars>>

\* await this.initialize() on an initialized agent, then
\* this.serviceClient.getLeadsStream(since) and pipeStreamToPromise
startFetch ==
  /\ fetchPc = "called"
  /\ isInitialized(initialized)
  /\ fetchPc' = "piping"
  /\ UNCHANGED <<fetchStream, fetchLeads, lastSyncAt>>
  /\ UNCHANGED notFetchVars

\* The stream hands the next chunk of leads to the callback: for every lead of
\* the chunk the account attributes are mapped and asAccount.traits is called.
deliverChunk ==
  /\ fetchPc = "piping"
  /\ fetchStream.state = "open"
  /\ fetchStream.delivered < chunkCount(fetchStream)
  /\ fetchStream' = [fetchStream EXCEPT !.delivered = @ + 1]
  /\ fetchLeads' = [l \in DOMAIN fetchLeads |->
                      IF l \in chunkLeads(fetchStream, fetchStream.delivered + 1)
                      THEN [fetchLeads[l] EXCEPT !.account = "pending"]
                      ELSE fetchLeads[l]]
  /\ UNCHANGED <<fetchPc, lastSyncAt>>
  /\ UNCHANGED notFetchVars

\* the stream ends after its last chunk
endStream ==
  /\ fetchStream.state = "open"
  /\ fetchPc = "piping"
  /\ fetchStream.delivered = chunkCount(fetchStream)
  /\ fetchStream' = [fetchStream EXCEPT !.state = "ended"]
  /\ UNCHANGED <<fetchPc, fetchLeads, lastSyncAt>>
  /\ UNCHANGED notFetchVars

\* the stream fails (the request for a page of leads fails)
failStream ==
  /\ fetchStream.state = "open"
  /\ fetchPc = "piping"
  /\ fetchStream' = [fetchStream EXCEPT !.state = "failed"]
  /\ UNCHANGED <<fetchPc, fetchLeads, lastSyncAt>>
  /\ UNCHANGED notFetchVars

\* asAccount.traits(hullAccountAttributes) of a lead resolves or rejects. When
\* it resolves, the callback of .then maps each contact and calls traits for
\* it; a mapping that throws ends the callback in the catch of the account,
\* and no contact of the lead is written.
settleAccount ==
  /\ \E l \in DOMAIN fetchLeads, written \in BOOLEAN :
        /\ fetchLeads[l].account = "pending"
        /\ LET lead == fetchLeads[l]
               throws == /\ lead.contacts # <<>>
                         /\ throwsNoInboundMapping(mappingSettings.revision,
                                                   mappingSettings.inbound)
           IN fetchLeads' =
                [fetchLeads EXCEPT ![l] =
                   IF ~contactWritesStart(written)
                   THEN FetchedLead("failed", lead.contacts, FALSE)
                   ELSE IF throws
                   THEN FetchedLead(IF written THEN "written" ELSE "failed",
                                    lead.contacts, TRUE)
                   ELSE FetchedLead(IF written THEN "written" ELSE "failed",
                                    [c \in DOMAIN lead.contacts |-> "pending"], FALSE)]
  /\ UNCHANGED <<fetchPc, fetchStream, lastSyncAt>>
  /\ UNCHANGED notFetchVars

\* asUser.account(..).traits(hullUserAttributes) of a contact resolves or
\* rejects; the rejection is caught and logged
settleContact ==
  /\ \E l \in DOMAIN fetchLeads :
       \E c \in DOMAIN fetchLeads[l].contacts, written \in BOOLEAN :
          /\ fetchLeads[l].contacts[c] = "pending"
          /\ fetchLeads' = [fetchLeads EXCEPT ![l].contacts[c] =
                              IF written THEN "written" ELSE "failed"]
  /\ UNCHANGED <<fetchPc, fetchStream, lastSyncAt>>
  /\ UNCHANGED notFetchVars

\* .then after pipeStreamToPromise: updateSettings({ last_sync_at: now }) and
\* incoming.job.success
jobSucceeds ==
  /\ fetchPc = "piping"
  /\ pipeResolved(fetchStream, fetchLeads)
  /\ lastSyncAt' = "now"
  /\ fetchPc' = "succeeded"
  /\ UNCHANGED <<fetchStream, fetchLeads>>
  /\ UNCHANGED notFetchVars

\* .catch after pipeStreamToPromise: incoming.job.error is logged
jobFails ==
  /\ fetchPc = "piping"
  /\ pipeRejected(fetchStream)
  /\ fetchPc' = "failed"
  /\ UNCHANGED <<fetchStream, fetchLeads, lastSyncAt>>
  /\ UNCHANGED notFetchVars

(* ------------------------------------------------------------------ *)
(* SpecFetch: one call of fetchUpdatedLeads                            *)
(* ------------------------------------------------------------------ *)
\* leads in the stream, and contacts of all its leads together
MaxLeads == 2
MaxContacts == 3

\* the number of contacts of the first n leads
RECURSIVE contactCount(_, _)
contactCount(sizes, n) == IF n = 0 THEN 0 ELSE sizes[n] + contactCount(sizes, n - 1)

\* the ways the stream cuts n leads into chunks: the chunk of each lead
Chunkings(n) ==
  {f \in [1..n -> 1..n] :
     /\ n > 0 => f[1] = 1
     /\ \A l \in 1..(n - 1) : f[l + 1] \in {f[l], f[l] + 1}}

\* fetchUpdatedLeads is called on an initialized agent; the stream holds up
\* to MaxLeads leads with up to MaxContacts contacts in all. The MappingUtil is
\* the one sync-agent.js requires (mapping-util.js). normalizeSettings always
\* gives lead_attributes_inbound a list; contact_attributes_inbound is a list
\* or is missing.
InitFetch ==
  /\ synchronizedAccountSegments = {"s1"}
  /\ filterCache = ABSENT
  /\ cacheStore = [k \in CacheKeys |-> ABSENT]
  /\ fKind = "none"
  /\ fpc = "idle"
  /\ envelopes = <<>>
  /\ pos = 1
  /\ results = EmptyResults
  /\ lookups = <<>>
  /\ messages = <<>>
  /\ deduped = <<>>
  /\ dpc = "idle"
  /\ apiKey = "valid"
  /\ attributeMappings = ObjectTypes
  /\ initialized = TRUE
  /\ refCached = ReferenceKeys
  /\ wraps = <<>>
  /\ apc = "idle"
  /\ batchNo = 0
  /\ serviceCalls = <<>>
  /\ hullLog = <<>>
  /\ cOp = "none"
  /\ settled = <<>>
  /\ traits = <<>>
  /\ mappingSettings \in
       {util \in MappingUtilSettings({ABSENT}, {RuleList(FALSE, <<>>)},
                                     {RuleList(FALSE, <<>>), RuleList(TRUE, <<>>)}, {<<>>}) :
          util.revision = "mapping-util.js"}
  /\ mpc = "none"
  /\ urlCall = "none"
  /\ cioRecord = "none"
  /\ hullAttributes = "none"
  /\ hullRecord = "none"
  /\ svcResult = "none"
  /\ ConcurrentIdle
  /\ fetchPc = "called"
  /\ lastSyncAt = "before"
  /\ \E n \in 0..MaxLeads :
       /\ \E chunkOf \in Chunkings(n) :
            fetchStream = [chunkOf |-> chunkOf, delivered |-> 0, state |-> "open"]
       /\ \E sizes \in [1..n -> 0..MaxContacts] :
            /\ contactCount(sizes, n) <= MaxContacts
            /\ fetchLeads = [l \in 1..n |->
                               FetchedLead("none", [c \in 1..sizes[l] |-> "none"], FALSE)]

NextFetch ==
  \/ startFetch
  \/ deliverChunk
  \/ endStream
  \/ failStream
  \/ settleAccount
  \/ settleContact
  \/ jobSucceeds
  \/ jobFails

SpecFetch == InitFetch /\ [][NextFetch]_vars

(* ------------------------------------------------------------------ *)
(* Properties of the filters (SpecFilter)                              *)
(* ------------------------------------------------------------------ *)
\* number of times reference k is in a result list
Occurrences(list, k) == Cardinality({i \in DOMAIN list : list[i] = k})

InList(list, k) == \E i \in DOMAIN list : list[i] = k

\* envelope k has been through the Promise.each callback
Classified(k) == k \in 1..Len(envelopes) /\ k < pos

\* the envelope's segments and the configured allow-list share an id
InAllowedSegment(k) == (envelopes[k].segments \cap synchronizedAccountSegments) # {}

\* C1: every envelope the filter has handled is in exactly one of toSkip,
\* toUpdate, toInsert, exactly once; an envelope not yet handled is in none;
\* when the filter returns, every input envelope has been handled; and every
\* envelope in toSkip carries a non-empty string as skipReason.
C1_ExactlyOneList ==
  /\ \A k \in 1..Len(envelopes) :
        Occurrences(results.toSkip, k) + Occurrences(results.toUpdate, k)
          + Occurrences(results.toInsert, k) = (IF Classified(k) THEN 1 ELSE 0)
  /\ \A list \in {"toSkip", "toUpdate", "toInsert"} :
        \A i \in DOMAIN results[list] : results[list][i] \in 1..Len(envelopes)
  /\ fpc = "resolved" => \A k \in 1..Len(envelopes) : Classified(k)
  /\ \A i \in DOMAIN results.toSkip :
        envelopes[results.toSkip[i]].skipReason \notin {NULLV, ABSENT, ""}

\* a filter has returned two envelopes in different lists
C1_Witness ==
  /\ fpc = "resolved"
  /\ Len(envelopes) = 2
  /\ Len(results.toSkip) = 1
  /\ Len(results.toUpdate) = 1

\* C2: an envelope whose segments do not intersect the allow-list is in toSkip
\* with the segment-mismatch reason of its filter, whatever its explicit id and
\* whatever the cache holds for it, and no cache lookup was made for it.
C2_SegmentMismatchSkips ==
  \A k \in 1..Len(envelopes) :
    (Classified(k) /\ ~InAllowedSegment(k)) =>
      /\ InList(results.toSkip, k)
      /\ ~InList(results.toUpdate, k)
      /\ ~InList(results.toInsert, k)
      /\ envelopes[k].skipReason =
           (IF fKind = "account" THEN OPERATION_SKIP_NOMATCHACCOUNTSEGMENTS
            ELSE OPERATION_SKIP_NOMATCHACCOUNTSEGMENTSUSER)
      /\ \A i \in DOMAIN lookups : lookups[i][1] # k

\* an account with an explicit id and a cached id, in a segment that is not
\* allowed, has been skipped
C2_Witness ==
  /\ fpc = "resolved"
  /\ fKind = "account"
  /\ \E k \in 1..Len(envelopes) :
       /\ envelopes[k].segments # {}
       /\ ~InAllowedSegment(k)
       /\ envelopes[k].cioId \in ExplicitIds
       /\ cacheStore[envelopes[k].id] \in CachedIds
       /\ InList(results.toSkip, k)

\* C3: an envelope in an allowed segment that carries an explicit external id,
\* or for whose internal id the cache holds an external id, is in toUpdate and
\* not in toInsert.
C3_IdentifiedUpdates ==
  \A k \in 1..Len(envelopes) :
    (/\ Classified(k)
     /\ InAllowedSegment(k)
     /\ (envelopes[k].cioId \in ExplicitIds \/ cacheStore[envelopes[k].id] \in CachedIds)) =>
      /\ InList(results.toUpdate, k)
      /\ ~InList(results.toInsert, k)

\* a user known only to the cache has been classified update
C3_Witness ==
  /\ fpc = "resolved"
  /\ fKind = "user"
  /\ \E k \in 1..Len(envelopes) :
       /\ InAllowedSegment(k)
       /\ envelopes[k].cioId = ABSENT
       /\ cacheStore[envelopes[k].id] \in CachedIds
       /\ InList(results.toUpdate, k)

\* C4: an envelope in an allowed segment with neither an explicit nor a cached
\* external id is in toInsert (an account always, a user when its write
\* payload has a lead_id), and in neither toUpdate nor toSkip.
C4_UnidentifiedInserts ==
  \A k \in 1..Len(envelopes) :
    (/\ Classified(k)
     /\ InAllowedSegment(k)
     /\ envelopes[k].cioId = ABSENT
     /\ cacheStore[envelopes[k].id] = ABSENT
     /\ (fKind = "account" \/ envelopes[k].write.lead_id \in LeadIds)) =>
      /\ InList(results.toInsert, k)
      /\ ~InList(results.toUpdate, k)
      /\ ~InList(results.toSkip, k)

\* C5: a user in an allowed segment with no explicit id, no cached id and no
\* lead_id on its write payload is in toSkip with the reason
\* OPERATION_SKIP_NOLINKEDACCOUNT, and not in toInsert.
C5_UnlinkedUserSkips ==
  \A k \in 1..Len(envelopes) :
    (/\ Classified(k)
     /\ fKind = "user"
     /\ InAllowedSegment(k)
     /\ envelopes[k].cioId = ABSENT
     /\ cacheStore[envelopes[k].id] = ABSENT
     /\ envelopes[k].write.lead_id = NULLV) =>
      /\ InList(results.toSkip, k)
      /\ envelopes[k].skipReason = OPERATION_SKIP_NOLINKEDACCOUNT
      /\ ~InList(results.toInsert, k)

\* C15: when the resolution of one envelope has failed during filterAccounts
\* / filterUsers, every other envelope of the list, before it or after it, is
\* still classified: it is in one of the result lists.
C15_FailureDoesNotBlockSiblings ==
  fpc = "rejected" =>
    \A k \in 1..Len(envelopes) :
      k # pos =>
        \/ InList(results.toSkip, k)
        \/ InList(results.toInsert, k)
        \/ InList(results.toUpdate, k)

\* C18: every envelope placed in toUpdate has an id on its write payload, and
\* the id is the explicit one of the snapshot when the snapshot has one, also
\* when the cache holds another.
C18_UpdateHasId ==
  \A k \in 1..Len(envelopes) :
    InList(results.toUpdate, k) =>
      /\ Truthy(envelopes[k].write.id)
      /\ Truthy(envelopes[k].cioId) => envelopes[k].write.id = envelopes[k].cioId

\* C19: matchesSynchronizedAccountSegments is true of an envelope if and only
\* if a segment of the envelope is in the configured allow-list, so it is
\* false with an empty allow-list and for an envelope without segments; the
\* filter takes the segment skip for exactly the envelopes it is false of.
C19_MatchesIffSharedSegment ==
  \A k \in 1..Len(envelopes) :
    /\ matchesSynchronizedAccountSegments(envelopes[k], synchronizedAccountSegments)
         <=> (\E s \in envelopes[k].segments : s \in synchronizedAccountSegments)
    /\ synchronizedAccountSegments = {} =>
         ~matchesSynchronizedAccountSegments(envelopes[k], synchronizedAccountSegments)
    /\ envelopes[k].segments = {} =>
         ~matchesSynchronizedAccountSegments(envelopes[k], synchronizedAccountSegments)
    /\ Classified(k) =>
         ((envelopes[k].skipReason \in {OPERATION_SKIP_NOMATCHACCOUNTSEGMENTS,
                                        OPERATION_SKIP_NOMATCHACCOUNTSEGMENTSUSER})
            <=> ~(\E s \in envelopes[k].segments : s \in synchronizedAccountSegments))

\* a run has classified an envelope with a segment in the allow-list and an
\* envelope with segments of which none is in the allow-list
C19_Witness ==
  /\ synchronizedAccountSegments # {}
  /\ \E k \in 1..Len(envelopes) :
       /\ Classified(k)
       /\ \E s \in envelopes[k].segments : s \in synchronizedAccountSegments
       /\ envelopes[k].skipReason \notin {OPERATION_SKIP_NOMATCHACCOUNTSEGMENTS,
                                          OPERATION_SKIP_NOMATCHACCOUNTSEGMENTSUSER}
  /\ \E j \in 1..Len(envelopes) :
       /\ Classified(j)
       /\ envelopes[j].segments # {}
       /\ \A s \in envelopes[j].segments : s \notin synchronizedAccountSegments
       /\ envelopes[j].opsResult = "skip"

\* C20: filterAccounts puts an account of an allowed segment whose snapshot
\* lacks the attribute named by leadIdentifierHull in toSkip, with the skip
\* reason OPERATION_SKIP_NOLEADIDENT, and neither in toInsert nor in toUpdate.
C20_NoLeadIdentSkips ==
  \A k \in 1..Len(envelopes) :
    (Classified(k) /\ InAllowedSegment(k) /\ envelopes[k].ident = ABSENT) =>
      /\ InList(results.toSkip, k)
      /\ envelopes[k].skipReason = OPERATION_SKIP_NOLEADIDENT
      /\ ~InList(results.toInsert, k)
      /\ ~InList(results.toUpdate, k)

(* ------------------------------------------------------------------ *)
(* Properties of the deduplication (SpecDedup)                         *)
(* ------------------------------------------------------------------ *)
\* the indices of the input messages of one entity
GroupIndices(id) == {i \in 1..Len(messages) : messages[i].id = id}

\* the greatest indexed_at of the group
IsLatest(i) == \A j \in GroupIndices(messages[i].id) :
                  messages[j].indexed_at <= messages[i].indexed_at

\* the entity fields and segments of a message
Snapshot(m) == <<m.id, m.indexed_at, m.cioId, m.segments, m.lead_id>>

\* one output message per distinct entity id of the input
OnePerEntity ==
  /\ \A i \in 1..Len(messages) :
        Cardinality({g \in 1..Len(deduped) : deduped[g].id = messages[i].id}) = 1
  /\ \A g \in 1..Len(deduped) : GroupIndices(deduped[g].id) # {}

\* C8: both deduplications return exactly one message per distinct entity id
\* of the input, and the event ids of each output message are the union of
\* the event ids of the input messages of that entity.
C8_DedupMergesEvents ==
  dpc = "returned" =>
    /\ OnePerEntity
    /\ \A g \in 1..Len(deduped) :
          {e.event_id : e \in deduped[g].events} =
            UNION {messages[i].events : i \in GroupIndices(deduped[g].id)}

\* C9: the snapshot of each output message is that of the member of its group
\* with the greatest indexed_at, whichever member of the group that is and
\* wherever it stands in the batch.
C9_SnapshotOfLatest ==
  dpc = "returned" =>
    \A g \in 1..Len(deduped) :
      \A i \in GroupIndices(deduped[g].id) :
        IsLatest(i) => Snapshot(deduped[g]) = Snapshot(messages[i])

\* C9 as amended: the snapshot of each output message is that of the member
\* of its group with the greatest indexed_at; when several members share the
\* greatest indexed_at it is that of the one that comes last in the batch.
C9_SnapshotOfLastLatest ==
  dpc = "returned" =>
    \A g \in 1..Len(deduped) :
      \A i \in GroupIndices(deduped[g].id) :
        (IsLatest(i) /\ \A j \in GroupIndices(deduped[g].id) : IsLatest(j) => j <= i)
          => Snapshot(deduped[g]) = Snapshot(messages[i])

\* a group whose latest message comes first in the batch has been deduplicated
\* to that message
C9_Witness ==
  /\ dpc = "returned"
  /\ Len(messages) = 2
  /\ messages[1].id = messages[2].id
  /\ messages[1].indexed_at > messages[2].indexed_at
  /\ messages[1].cioId # messages[2].cioId
  /\ Len(deduped) = 1
  /\ Snapshot(deduped[1]) = Snapshot(messages[1])

(* ------------------------------------------------------------------ *)
(* Properties of the batch operations (SpecAgent)                      *)
(* ------------------------------------------------------------------ *)
\* the connector has an API key and no request to close.io has failed
ServiceAnswers ==
  /\ apiKey # ABSENT
  /\ \A c \in DOMAIN serviceCalls : serviceCalls[c].ok

\* envelope k is of an entity in an allowed segment that has no external id
\* yet, neither on its snapshot nor in the cache, and that can be created
NewEntity(k) ==
  /\ (envelopes[k].segments \cap synchronizedAccountSegments) # {}
  /\ envelopes[k].cioId = ABSENT
  /\ envelopes[k].cachedReadId = NULLV
  /\ cacheStore[envelopes[k].id] = ABSENT \/ batchNo > 1
  /\ (fKind = "account" \/ envelopes[k].write.lead_id \in LeadIds)

\* the requests that wrote entity id to close.io with operation op
Writes(op, id) ==
  {c \in DOMAIN serviceCalls : serviceCalls[c].op = op /\ serviceCalls[c].entity = id}

\* C6: when a batch operation has ended in which close.io answers every
\* request, each new entity of the batch has been created and the identity
\* cache holds an external id under the internal id of the entity, the key
\* under which the filter of the next batch looks it up.
C6_InsertedIdIsCached ==
  (BatchEnded /\ ServiceAnswers) =>
    \A k \in 1..Len(envelopes) :
      NewEntity(k) => cacheStore[envelopes[k].id] # ABSENT

\* C7: when the second batch operation with the same new account has ended,
\* with close.io answering every request, the account has been put with an
\* external id in the second batch and has been posted at most once.
C7_ResentAccountIsUpdated ==
  (BatchEnded /\ ServiceAnswers /\ batchNo = 2 /\ fKind = "account") =>
    \A k \in 1..Len(envelopes) :
      NewEntity(k) =>
        /\ \E c \in Writes("put", envelopes[k].id) : serviceCalls[c].id # ABSENT
        /\ Cardinality(Writes("post", envelopes[k].id)) <= 1

\* C10: when a batch operation has ended, every envelope with a skipReason has
\* been logged as a skip and has not been put or posted, and every envelope
\* that has been put or posted has no skipReason.
C10_SkippedOnlyLogged ==
  BatchEnded =>
    \A k \in 1..Len(envelopes) :
      /\ envelopes[k].skipReason # NULLV =>
           /\ Writes("put", envelopes[k].id) = {}
           /\ Writes("post", envelopes[k].id) = {}
           /\ \E l \in DOMAIN hullLog :
                /\ hullLog[l].event \in {"outgoing.account.skip", "outgoing.user.skip"}
                /\ hullLog[l].entity = envelopes[k].id
                /\ hullLog[l].data = envelopes[k].skipReason
      /\ (Writes("put", envelopes[k].id) \cup Writes("post", envelopes[k].id)) # {} =>
           envelopes[k].skipReason = NULLV

\* C13: a batch operation in which close.io answers every request either
\* resolves, with every envelope succeeded, skipped or failed on its own, or
\* rejects because the API key is missing, and then no put or post has been
\* sent.
C13_CompletesOrConfigurationFails ==
  (apc = "rejected" /\ \A c \in DOMAIN serviceCalls : serviceCalls[c].ok) =>
    /\ apiKey = ABSENT
    /\ \A c \in DOMAIN serviceCalls : serviceCalls[c].op \notin {"put", "post"}

C17_InitializeIdempotent ==
  [][apc = "called" =>
       /\ initialized =>
            /\ wraps' = wraps
            /\ serviceCalls' = serviceCalls
            /\ initialized'
            /\ apc' = "initialized"
       /\ \A c \in DOMAIN serviceCalls' :
            (c > Len(serviceCalls) /\ serviceCalls'[c].op = "get") =>
              serviceCalls'[c].id \notin refCached]_vars

\* a second batch has gone through initialize on an agent whose first
\* initialize loaded the reference data from close.io
C17_Witness ==
  /\ batchNo = 2
  /\ apc = "initialized"
  /\ initialized
  /\ wraps = <<"raw_lead_status", "raw_lead_custom_fields">>
  /\ Len(serviceCalls) = 2
  /\ \A c \in DOMAIN serviceCalls : serviceCalls[c].op = "get" /\ serviceCalls[c].ok

(* ------------------------------------------------------------------ *)
(* Properties of the envelope methods (SpecClient)                     *)
(* ------------------------------------------------------------------ *)
\* C11: when the call for an envelope has failed, for whatever cause, the
\* promise of the envelope method has resolved with an enriched envelope whose
\* error field holds the failure, so that the batch goes on with the other
\* envelopes.
C11_FailureIsRecorded ==
  \A k \in 1..Len(envelopes) :
    (settled[k].state # "none" /\ settled[k].cause # "none") =>
      /\ settled[k].state \in {"resolved", "applied"}
      /\ settled[k].envelope.error # NULLV

\* C12: when the call for an envelope has succeeded and its result has been
\* applied, the enriched envelope holds the read record under the property
\* the agent reads, the record has been written to the Hull user of the
\* envelope, and outgoing.user.success has been logged for it and no error.
C12_SuccessIsApplied ==
  \A k \in 1..Len(envelopes) :
    (settled[k].state = "applied" /\ settled[k].cause = "none") =>
      /\ settled[k].envelope.read # NULLV
      /\ \E t \in DOMAIN traits :
           /\ traits[t].entity = envelopes[k].id
           /\ traits[t].id = settled[k].envelope.read
      /\ \E l \in DOMAIN hullLog :
           /\ hullLog[l].entity = envelopes[k].id
           /\ hullLog[l].event = "outgoing.user.success"
      /\ \A l \in DOMAIN hullLog :
           hullLog[l].entity = envelopes[k].id => hullLog[l].event # "outgoing.user.error"

(* ------------------------------------------------------------------ *)
(* Properties of dispatch and result application (SpecDispatch)        *)
(* ------------------------------------------------------------------ *)
\* C16: when a post request of the batch has gone out, every put of the batch
\* has come back and the callback that applies its result to Hull has ended.
C16_UpdatesAppliedBeforeInserts ==
  (\E k \in Refs(results.toInsert) : settled[k].state # "none") =>
    \A u \in Refs(results.toUpdate) :
      /\ settled[u].state = "applied"
      /\ \E c \in DOMAIN serviceCalls :
           serviceCalls[c].op = "put" /\ serviceCalls[c].entity = envelopes[u].id
      /\ \E l \in DOMAIN hullLog :
           /\ hullLog[l].entity = envelopes[u].id
           /\ hullLog[l].event \in {"outgoing." \o fKind \o ".success",
                                    "outgoing." \o fKind \o ".error"}

\* a post has gone out in a batch that had an update to put and apply
C16_Witness ==
  /\ \E k \in Refs(results.toInsert) : settled[k].state = "pending"
  /\ \E u \in Refs(results.toUpdate) :
       settled[u].state = "applied" /\ settled[u].cause = "none"

(* ------------------------------------------------------------------ *)
(* Properties of the MappingUtil (SpecMapping)                         *)
(* ------------------------------------------------------------------ *)
\* C21: normalizeUrl is total. Whatever it is called with (undefined, the
\* empty string, a string that is no URL), it does not throw; it returns the
\* hostname when new URL parses the input and the input itself otherwise.
C21_NormalizeUrlTotal ==
  (mpc = "normalizeUrl") =>
    /\ urlCall.state # "raised"
    /\ (urlCall.state = "returned") =>
         IF newURL(urlCall.original).ok
         THEN urlCall.value = HostOnly(newURL(urlCall.original).hostname)
         ELSE urlCall.value = urlCall.original

\* normalizeUrl was called with undefined and has returned it
C21_Witness ==
  /\ mpc = "normalizeUrl"
  /\ urlCall.state = "returned"
  /\ urlCall.original = Undefined
  /\ urlCall.value = Undefined

\* the call of mapToServiceObject has ended
OutboundEnded == mpc = "mapToServiceObject" /\ svcResult.state \in {"returned", "raised"}

\* a close.io record was mapped inbound, and the call has ended
InboundEnded == cioRecord.type # "none" /\ hullAttributes.state \in {"returned", "raised"}

\* C22: round trip of the identity. A lead or contact of close.io with id X is
\* mapped inbound, the attributes are applied to the account or user as the
\* platform stores them, and that record is mapped outbound: the result is a
\* write payload whose id is X.
C22_RoundTripId ==
  /\ (cioRecord.type # "none" /\ OutboundEnded) =>
       /\ svcResult.state = "returned"
       /\ svcResult.payload.id = cioRecord.id
  /\ InboundEnded => hullAttributes.state = "returned"

\* C23: in the Lead payload mapToServiceObject builds from its defaults, id is
\* set exactly when the account carries an external id, status_id is set
\* exactly when it carries none and the configured creation status is not a
\* "use default" setting, and the two are never both set.
C23_IdOrCreationStatus ==
  (OutboundEnded /\ svcResult.state = "returned" /\ hullRecord.objType = "Lead") =>
    LET carriesId == hullRecord.cioId \notin {ABSENT, NULLV}
        useDefault == mappingSettings.leadCreationStatusId \in UseDefaultStatus
    IN /\ (svcResult.payload.id # ABSENT) <=> carriesId
       /\ carriesId => svcResult.payload.id = hullRecord.cioId
       /\ (svcResult.payload.status_id # ABSENT) <=> (~carriesId /\ ~useDefault)
       /\ (svcResult.payload.status_id # ABSENT) =>
            svcResult.payload.status_id = mappingSettings.leadCreationStatusId
       /\ ~(svcResult.payload.id # ABSENT /\ svcResult.payload.status_id # ABSENT)

\* a lead without external id was mapped on a util with a creation status,
\* and the payload has the status and no id
C23_Witness ==
  /\ OutboundEnded
  /\ svcResult.state = "returned"
  /\ hullRecord.objType = "Lead"
  /\ hullRecord.cioId = NULLV
  /\ mappingSettings.leadCreationStatusId \in LeadStatusIds
  /\ svcResult.payload.status_id \in LeadStatusIds
  /\ svcResult.payload.id = ABSENT

\* an outbound rule is usable when it names both a source and a target field
Usable(entry) == entry.hull_field_name # ABSENT /\ entry.closeio_field_name # ABSENT

NoUsableRule(rules) ==
  \/ ~rules.defined
  \/ \A i \in DOMAIN rules.list : ~Usable(rules.list[i])

\* C24: mapToServiceObject fails with a mapping error that carries the entity
\* type and the record whenever the entity type has no usable outbound rule
\* (the list is missing, empty, or holds only entries without both a source
\* and a target field), and returns a payload only when a usable rule exists.
C24_FailsWithoutUsableRule ==
  (cioRecord.type = "none" /\ OutboundEnded) =>
    /\ (svcResult.state = "raised") <=> NoUsableRule(mappingSettings.outbound)
    /\ (svcResult.state = "raised") =>
         /\ svcResult.objType = hullRecord.objType
         /\ svcResult.hullObject = hullRecord

\* the attribute map holds the entry
Holds(attributes, name, value, operation) ==
  /\ hasAttribute(attributes, name)
  /\ getAttribute(attributes, name) = Attribute(name, value, operation)

\* C25: whatever the record and the inbound rules, the attribute map holds the
\* id of the record (and the lead id of a contact) with the policy "set", the
\* creation timestamp with "setIfNull", the update timestamp with "set", and
\* the canonical name with "setIfNull" exactly when the mapped closeio/name is
\* a non-empty string.
C25_IdentityAndTimestampsAlwaysMapped ==
  InboundEnded =>
    /\ hullAttributes.state = "returned"
    /\ LET attributes == hullAttributes.attributes
           named == /\ hasAttribute(attributes, CloseioName)
                    /\ getAttribute(attributes, CloseioName).value \notin {ABSENT, NULLV, ""}
       IN /\ Holds(attributes, CloseioId, cioRecord.id, "set")
          /\ (cioRecord.type = "Contact") =>
               Holds(attributes, CloseioLeadId, cioRecord.lead_id, "set")
          /\ Holds(attributes, CloseioCreatedAt, cioRecord.date_created, "setIfNull")
          /\ Holds(attributes, CloseioUpdatedAt, cioRecord.date_updated, "set")
          /\ hasAttribute(attributes, HullName) <=> named
          /\ named => Holds(attributes, HullName,
                            getAttribute(attributes, CloseioName).value, "setIfNull")

\* the custom field codes among the rules whose field has a value on the record
MappedCustomIds ==
  {id \in CustomFieldIds :
     /\ \E k \in DOMAIN mappingSettings.inbound.list :
           mappingSettings.inbound.list[k] = customCode(id)
     /\ ~isNil(cioRecord.custom[id])}

\* the registry entry of a custom field id, if any
Registered(id) ==
  {i \in DOMAIN mappingSettings.leadCustomFields : mappingSettings.leadCustomFields[i].id = id}

\* C26: a custom field code of the registry is written under the normalized
\* (lower-case, underscore-separated) name of the custom field and never under
\* an empty name; a custom field code that is not in the registry is the
\* attribute name as it is.
C26_CustomFieldNames ==
  (InboundEnded /\ hullAttributes.state = "returned") =>
    /\ \A a \in hullAttributes.attributes : a.name.name # EmptyName
    /\ \A id \in MappedCustomIds :
         IF Registered(id) # {}
         THEN \A i \in Registered(id) :
                hasAttribute(hullAttributes.attributes,
                             AttributeName("closeio",
                                           Name(mappingSettings.leadCustomFields[i].name.words,
                                                "_", FALSE)))
         ELSE hasAttribute(hullAttributes.attributes, AttributeName("closeio", customCode(id)))

(* ------------------------------------------------------------------ *)
(* Properties of the identity cache writes (SpecDispatch)              *)
(* ------------------------------------------------------------------ *)
\* the envelopes whose message id is the cache key
EnvelopesOfKey(key) == {k \in 1..Len(envelopes) : MessageId(envelopes[k].id[2]) = key}

\* C27: the identity cache is written only for an insert envelope whose
\* creation in close.io succeeded and whose attributes were written to Hull:
\* an entry of the cache belongs to an envelope of toInsert whose callback has
\* ended without failure of the dispatch or of the write to Hull, the write is
\* among the traits calls, and the value is the id of the record returned for
\* that envelope; nothing is written under another key.
C27_CacheOnlyForAppliedInserts ==
  \A key \in CacheKeys :
    cacheStore[key] # ABSENT =>
      /\ key \in MessageIds
      /\ \E k \in EnvelopesOfKey(key) :
           /\ k \in Refs(results.toInsert)
           /\ k \notin Refs(results.toSkip) \cup Refs(results.toUpdate)
           /\ settled[k].state = "applied"
           /\ settled[k].cause = "none"
           /\ settled[k].envelope.error = NULLV
           /\ settled[k].envelope.read # NULLV
           /\ cacheStore[key] = settled[k].envelope.read
           /\ \E t \in DOMAIN traits :
                traits[t] = resultTraits(fKind, settled[k].envelope)

\* a batch of two inserts that close.io created: the write to Hull of one has
\* failed and the cache holds nothing for it, the other has been written and
\* is in the cache
C27_Witness ==
  /\ apc = "resolved"
  /\ Len(envelopes) = 2
  /\ Refs(results.toInsert) = {1, 2}
  /\ \E k \in {1, 2} :
       /\ settled[k].cause = "traits"
       /\ settled[k].envelope.read # NULLV
       /\ cacheStore[MessageId(k)] = ABSENT
       /\ settled[3 - k].cause = "none"
       /\ cacheStore[MessageId(3 - k)] = settled[3 - k].envelope.read

(* ------------------------------------------------------------------ *)
(* Properties of the cache lookups of the filters (SpecFilter)         *)
(* ------------------------------------------------------------------ *)
\* envelope k is in one of the result lists
InSomeList(k) ==
  InList(results.toSkip, k) \/ InList(results.toUpdate, k) \/ InList(results.toInsert, k)

\* C28: the cache lookups of a filter are made one at a time in the order of
\* the envelope list. At most one lookup is pending; the lookups are for
\* envelopes in list order; when the lookup of an envelope has been made,
\* every envelope before it is classified; no lookup is made for an envelope
\* outside the synchronized segments; the key of a lookup is the id of its
\* envelope, and once it has resolved that envelope, and no other, is
\* classified by the value the cache holds for it.
C28_LookupsOneAtATimeInOrder ==
  /\ Cardinality({l \in DOMAIN lookups : lookups[l][3] = "pending"}) <= 1
  /\ \A l, n \in DOMAIN lookups : l < n => lookups[l][1] < lookups[n][1]
  /\ \A l \in DOMAIN lookups :
       LET k == lookups[l][1]
           cached == cacheStore[lookups[l][2]]
       IN /\ k \in 1..Len(envelopes)
          /\ \A j \in 1..(k - 1) : InSomeList(j)
          /\ InAllowedSegment(k)
          /\ lookups[l][2] = envelopes[k].id
          /\ lookups[l][3] # "resolved" => ~InSomeList(k)
          /\ lookups[l][3] = "resolved" =>
               /\ InSomeList(k)
               /\ InList(results.toUpdate, k) <=>
                    (envelopes[k].cioId # ABSENT \/ cached \in CachedIds)
               /\ InList(results.toUpdate, k) =>
                    envelopes[k].write.id = JsOr(envelopes[k].cioId, cached)
  /\ \A k \in 1..Len(envelopes) :
       (InSomeList(k) /\ InAllowedSegment(k)) =>
          \E l \in DOMAIN lookups : lookups[l][1] = k /\ lookups[l][3] = "resolved"

\* the lookup of the second envelope is pending after the first envelope was
\* looked up and classified, in a list whose two envelopes differ in what the
\* cache holds for them
C28_Witness ==
  /\ Len(envelopes) = 2
  /\ Len(lookups) = 2
  /\ lookups[1] = <<1, envelopes[1].id, "resolved">>
  /\ lookups[2] = <<2, envelopes[2].id, "pending">>
  /\ InList(results.toUpdate, 1)
  /\ ~InSomeList(2)
  /\ cacheStore[envelopes[1].id] \in CachedIds
  /\ cacheStore[envelopes[2].id] = ABSENT
  /\ envelopes[1].cioId = ABSENT

(* ------------------------------------------------------------------ *)
(* Properties of concurrent batch operations (SpecConcurrent)          *)
(* ------------------------------------------------------------------ *)
\* both operations have settled and the filters they started are through
ConcurrentEnded ==
  \A b \in DOMAIN ops :
    /\ ops[b].pc \in {"resolved", "rejected"}
    /\ ops[b].filter \in {"resolved", "rejected"}

\* the message of every operation is in a synchronized segment
AllSynchronized ==
  \A b \in DOMAIN ops :
    (ops[b].messages[1].segments \cap synchronizedAccountSegments) # {}

\* C29: two batch operations run concurrently, both with a message of the same
\* entity, which has no external id and for which the cache holds nothing.
\* However their steps interleave, when both have ended neither has failed and
\* the cache holds an external id for the entity.
C29_LastWriteWins ==
  (ops # <<>> /\ ConcurrentEnded /\ AllSynchronized) =>
    /\ \A b \in DOMAIN ops : ops[b].pc = "resolved"
    /\ \E key \in {SharedEntity, MessageId(SharedEntity[2])} : cacheStore[key] # ABSENT

====
